---- MODULE Spec2Model ----
(***************************************************************************)
(* Model of src/aap.py: the loan calculation functions months_overdue and  *)
(* calculate_loan_fields, and the record-management handlers (Add Loan,    *)
(* Edit Loans, Admin Controls) that call them and persist their results in *)
(* the loans table; the read cache in front of the tables, the users      *)
(* table and the sign-in flags of a browser session.                       *)
(*                                                                         *)
(* Money is a Python float in the source.  Here an amount given or        *)
(* returned is an integer count of 1/10000 of a currency unit, and what    *)
(* the calculations make of it before they round is that count with its    *)
(* hundredths, so that round(x, 2) is a real conversion: it maps a value   *)
(* to a multiple of Cent.  Time is an integer count of 1/1000 of a day     *)
(* (TicksPerDay), the resolution of the factor 30.437 in months_overdue.   *)
(***************************************************************************)
EXTENDS Integers, Sequences, FiniteSets, TLC

VARIABLES
    db_loans,   \* the rows of table loans, in the order load_loans_df returns them
    now,        \* what datetime.now() returns, in ticks since 0001-01-00 00:00
    call,       \* the engine invocation of the latest handler run (or direct call)
    last,       \* the handler that ran last, with what it decided
    pending,    \* per session: the form a handler has shown, and the frame it
                \* has built from its load of the table and not yet saved
    cache,      \* st.cache_data: per loader, the frame it returned last, if kept
    db_users,   \* table users, with the highest id it has handed out
    db_expenses,        \* the rows of table expenses, by id
    db_other_income,    \* the rows of table other_income, by id
    loans_table,        \* table loans is there (a save drops and creates it)
    session     \* st.session_state: the sign-in flags and current_user (with
                \* two sessions, the flags both of them hold)

\* the database beside the rows of loans
books == <<db_users, db_expenses, db_other_income, loans_table>>

vars == <<db_loans, now, call, last, pending, cache, books, session>>

\* ---------------------------------------------------------------- bounds
MaxLoans  == 2      \* rows the table may hold
MaxSerial == 3      \* highest serial number handed out
MaxTicks  == 1      \* clock advances
MaxUserId == 2      \* highest id table users hands out
MaxBookRows == 1    \* rows tables expenses and other_income may hold
MaxRuns == 2        \* script runs of one session, where two sessions run at once

\* ------------------------------------------------------- program constants
Cent             == 100     \* round(x, 2): 0.01 currency unit
TicksPerDay      == 1000    \* one day, in ticks
DaysPerMonthMilli == 30437  \* 30.437 days, in ticks
OverdueBlockDays == 30      \* delta_days // 30
PenaltyDivisor   == 10      \* amount * 0.10
PercentDivisor   == 100     \* rate / 100
MinAddPrincipal  == 10000000 \* number_input(min_value=1000.0) of Add Loan

\* ------------------------------------------------------------ arithmetic
Abs(x) == IF x < 0 THEN -x ELSE x

\* int(x) of Python for x = n / d, d > 0: truncation toward zero.
TruncDiv(n, d) == IF n >= 0 THEN n \div d ELSE -((-n) \div d)

\* An amount the calculations have not rounded yet is [u, f]: u counts of
\* 1/10000 and f parts of one more, 0 <= f < Fine.  A count times a whole
\* number over 10 or over 100 is such an amount, with nothing lost.
Fine == 100

Exact(u, f) == [u |-> u + f \div Fine, f |-> f % Fine]

\* a count of 1/10000 as an amount not rounded
Whole(x) == [u |-> x, f |-> 0]

Plus(x, y) == Exact(x.u + y.u, x.f + y.f)

Minus(x, y) == Exact(x.u - y.u, x.f - y.f)

\* x + n for a count n
Shift(x, n) == [x EXCEPT !.u = @ + n]

\* -1, 0 or 1 as x is below, at or above 0
Sign(x) == IF x.u < 0 THEN -1 ELSE IF x.u = 0 /\ x.f = 0 THEN 0 ELSE 1

\* max(a, b) that keeps a (used as a mutant: the floor at 0 forgotten).
MaxNoFloor(a, b) == a

Max(a, b) == IF Sign(Minus(a, b)) >= 0 THEN a ELSE b

\* a * n / d for d = 10 or d = 100, computed without forming a * n
ScaleDiv(a, n, d) ==
    LET p == (a % d) * n
    IN  Exact((a \div d) * n + p \div d, (p % d) * (Fine \div d))

\* round(x, 2), as the set of values it can return: the multiple of Cent
\* nearest to the binary float that stands for x.  Off a half cent that is
\* the multiple nearest to x.  A half cent is no binary float: the float of
\* x lies a little below or a little above it, by an error that depends on
\* how x was computed and that the amount does not carry, and round returns
\* the multiple on that side (round(0.005, 2) is 0.01, round(1.015, 2) is
\* 1.01); there both neighbours are in the set.
Round2(x) ==
    LET q == x.u \div Cent
        r == (x.u % Cent) * Fine + x.f
    IN  IF 2 * r < Cent * Fine THEN {q * Cent}
        ELSE IF 2 * r > Cent * Fine THEN {(q + 1) * Cent}
        ELSE {q * Cent, (q + 1) * Cent}

\* ----------------------------------------------------------------- dates
\* A date value is [kind, y, m, d]:
\*   "str"       the text 'y-m-d' (which may name no calendar day),
\*   "date"      datetime.date(y, m, d), what st.date_input returns,
\*   "datetime"  datetime(y, m, d) or a pandas Timestamp at midnight,
\*   "none"      None (a NULL of the table),
\*   "nat"       pandas NaT.
NoDate == [kind |-> "none", y |-> 0, m |-> 0, d |-> 0]

NaT == [kind |-> "nat", y |-> 0, m |-> 0, d |-> 0]

\* float('nan') as a count of months: no number months_overdue returns otherwise
NaN == -1

IsLeap(y) == (y % 4 = 0) /\ ((y % 100 # 0) \/ (y % 400 = 0))

DaysInMonth(y, m) ==
    IF m = 2 THEN (IF IsLeap(y) THEN 29 ELSE 28)
    ELSE IF m \in {4, 6, 9, 11} THEN 30 ELSE 31

RECURSIVE DaysBeforeMonth(_, _)
DaysBeforeMonth(y, m) ==
    IF m <= 1 THEN 0 ELSE DaysBeforeMonth(y, m - 1) + DaysInMonth(y, m - 1)

DaysBeforeYear(y) ==
    LET p == y - 1 IN p * 365 + p \div 4 - p \div 100 + p \div 400

\* date(y, m, d).toordinal()
Ymd2Ord(y, m, d) == DaysBeforeYear(y) + DaysBeforeMonth(y, m) + d

\* datetime.strptime(s, "%Y-%m-%d") succeeds
Parseable(s) ==
    /\ s.y \in 1..9999
    /\ s.m \in 1..12
    /\ s.d \in 1..DaysInMonth(s.y, s.m)

\* pd.notna(loan_date)
NotNa(loan_date) == loan_date.kind \notin {"none", "nat"}

\* midnight of a date value, in ticks
Midnight(dt) == Ymd2Ord(dt.y, dt.m, dt.d) * TicksPerDay

\* pd.to_datetime(date): a Timestamp at midnight of the same day
ToDatetime(dt) ==
    IF dt.kind \in {"none", "nat"} THEN dt
    ELSE [kind |-> "datetime", y |-> dt.y, m |-> dt.m, d |-> dt.d]

\* ------------------------------------------------------- loan calculations
\* int(duration_months * 30.437) rounding to nearest (used as a mutant).
DueOffsetDaysRounded(duration_months) ==
    LET n == duration_months * DaysPerMonthMilli
    IN  IF n >= 0 THEN (2 * n + TicksPerDay) \div (2 * TicksPerDay)
        ELSE -((2 * (-n) + TicksPerDay) \div (2 * TicksPerDay))

\* int(duration_months * 30.437)
DueOffsetDays(duration_months) ==
    TruncDiv(duration_months * DaysPerMonthMilli, TicksPerDay)

\* delta_days // 30 + 1: the running block counted too (used as a mutant).
OverdueBlocksPlusOne(today, due) ==
    ((today - due) \div TicksPerDay) \div OverdueBlockDays + 1

\* (today - due).days // 30, for today > due
OverdueBlocks(today, due) ==
    ((today - due) \div TicksPerDay) \div OverdueBlockDays

\* date.max.toordinal(): 9999-12-31
MaxOrdinal == 3652059

\* the day a datetime can be at
InRange(ordinal) == ordinal >= 1 /\ ordinal <= MaxOrdinal

\* the day of start + timedelta(days=int(duration_months * 30.437))
DueDay(loan_date, duration_months) ==
    Ymd2Ord(loan_date.y, loan_date.m, loan_date.d) + DueOffsetDays(duration_months)

\* months_overdue without the test today <= due (used as a mutant).
months_overdue_unguarded(loan_date, duration_months, today) ==
    IF loan_date.kind = "none" THEN 0
    ELSE IF loan_date.kind = "nat" THEN NaN
    ELSE IF loan_date.kind = "str" /\ ~Parseable(loan_date) THEN 0
    ELSE IF loan_date.kind = "date" THEN 0
    ELSE LET due_day == DueDay(loan_date, duration_months)
         IN  IF ~InRange(due_day) THEN 0
             ELSE OverdueBlocks(today, due_day * TicksPerDay)

\* months_overdue(loan_date, duration_months), with today = datetime.now().
\* The bare except returns 0 for: a string strptime rejects; None (None +
\* timedelta raises TypeError); a datetime.date, for which start + timedelta
\* is a date and today <= due compares a datetime with a date (TypeError); a
\* due day before 0001-01-01 or after 9999-12-31 (start + timedelta raises
\* OverflowError).
\* NaT raises nothing: NaT + timedelta is NaT, today <= NaT is False,
\* (today - NaT).days is nan and nan // 30 is nan.
months_overdue(loan_date, duration_months, today) ==
    IF loan_date.kind = "none" THEN 0
    ELSE IF loan_date.kind = "nat" THEN NaN
    ELSE IF loan_date.kind = "str" /\ ~Parseable(loan_date) THEN 0
    ELSE IF loan_date.kind = "date" THEN 0
    ELSE LET due_day == DueDay(loan_date, duration_months)
             due     == due_day * TicksPerDay
         IN  IF ~InRange(due_day) THEN 0
             ELSE IF today <= due THEN 0 ELSE OverdueBlocks(today, due)

\* amount * (rate / 100) * duration compounding per month (used as a mutant).
RECURSIVE InterestCompound(_, _, _)
InterestCompound(amount, rate, duration) ==
    IF duration <= 0 THEN Whole(0)
    ELSE LET prev == InterestCompound(amount, rate, duration - 1)
         IN  Plus(prev, ScaleDiv(amount + prev.u, rate, PercentDivisor))

\* interest = amount * (rate / 100) * duration
Interest(amount, rate, duration) ==
    ScaleDiv(amount, rate * duration, PercentDivisor)

\* amount * 0.10 * overdue_months capped at three months (used as a mutant).
PenaltyCapped(amount, overdue_months) ==
    ScaleDiv(amount, IF overdue_months > 3 THEN 3 ELSE overdue_months, PenaltyDivisor)

\* penalty = amount * 0.10 * overdue_months
Penalty(amount, overdue_months) ==
    ScaleDiv(amount, overdue_months, PenaltyDivisor)

\* provisional = amount + admin_fees + interest - remitted
Provisional(amount, admin_fees, interest, remitted, penalty) ==
    Shift(interest, amount + admin_fees - remitted)

\* One currency unit, in counts of 1/10000
Unit == 10000

\* amount + admin_fees + interest - remitted adds up without error in floats
\* whenever its terms do: the interest is 0.0 (a factor of it is 0), and
\* either nothing is added to amount, or the amounts are whole numbers.
ExactSum(amount, rate, duration, admin_fees, remitted) ==
    /\ amount = 0 \/ rate = 0 \/ duration = 0
    /\ \/ admin_fees = 0
       \/ amount = 0
       \/ \A x \in {amount, admin_fees, remitted} : x % Unit = 0

\* the sides of 0 the float of provisional can lie on, as Sign tells them.
\* A provisional off 0 has its float on the same side.  At 0 the float is
\* 0.0 when the sum adds up without error, and otherwise 0.0 or a rounding
\* error below or above it (1000.1 + 0.0 + 1000.1 * 0.05 * 2 - 1100.11 is
\* 2.3e-13).
ProvisionalSides(provisional, exact_sum) ==
    IF Sign(provisional) # 0 THEN {Sign(provisional)}
    ELSE IF exact_sum THEN {0}
    ELSE {-1, 0, 1}

\* what calculate_loan_fields returns once the penalty is settled
Returned(amount, admin_fees, interest, penalty, remitted) ==
    LET total_add == Shift(Plus(interest, penalty), admin_fees)
        g_total   == Shift(total_add, amount)
        balance   == Shift(g_total, -remitted)
    IN  {res \in [interest  : Round2(interest),
                  penalty   : Round2(penalty),
                  total_add : Round2(total_add),
                  g_total   : Round2(g_total),
                  balance   : Round2(Max(balance, Whole(0)))] :
            /\ (admin_fees = 0 /\ Sign(penalty) = 0) => res.total_add = res.interest
            /\ (remitted = 0 /\ Sign(balance) >= 0) => res.balance = res.g_total}

\* calculate_loan_fields(amount, rate, duration, admin_fees, remitted, loan_date),
\* as the set of tuples it can return: one tuple unless a value it rounds is
\* a half cent, or provisional is 0 and its float may be off 0.  The test
\* provisional <= 0 is made on the float.  Adding 0 changes no float: with no
\* admin fee and no penalty total_add is the float of interest, with nothing
\* remitted balance is the float of g_total, and each pair rounds to the
\* same side.
calculate_loan_fields(amount, rate, duration, admin_fees, remitted, loan_date, today) ==
    LET interest       == Interest(amount, rate, duration)
        overdue_months == IF NotNa(loan_date)
                          THEN months_overdue(loan_date, duration, today) ELSE 0
        penalty0       == Penalty(amount, overdue_months)
        provisional    == Provisional(amount, admin_fees, interest, remitted, penalty0)
        sides          == ProvisionalSides(provisional,
                              ExactSum(amount, rate, duration, admin_fees, remitted))
    IN  (IF sides \cap {-1, 0} = {} THEN {}
         ELSE Returned(amount, admin_fees, interest, Whole(0), remitted))
        \cup
        (IF 1 \notin sides THEN {}
         ELSE Returned(amount, admin_fees, interest, penalty0, remitted))

\* ---------------------------------------------------------- engine calls
NoResult == [interest |-> 0, penalty |-> 0, total_add |-> 0, g_total |-> 0, balance |-> 0]

\* call: which function ran (fn), for which handler (by), on what arguments,
\* at what clock reading, and what it returned (months for months_overdue,
\* result for calculate_loan_fields) once done.
NoCall ==
    [fn |-> "none", by |-> "none", done |-> FALSE,
     amount |-> 0, rate |-> 0, duration |-> 0, admin_fees |-> 0, remitted |-> 0,
     loan_date |-> NoDate, today |-> 0, months |-> 0, result |-> NoResult]

\* the records of a finished calculate_loan_fields invocation, one for each
\* tuple it can return
CalcCalls(by, amount, rate, duration, admin_fees, remitted, loan_date, today) ==
    {[fn |-> "calculate_loan_fields", by |-> by, done |-> TRUE,
      amount |-> amount, rate |-> rate, duration |-> duration,
      admin_fees |-> admin_fees, remitted |-> remitted,
      loan_date |-> loan_date, today |-> today, months |-> 0,
      result |-> res] :
        res \in calculate_loan_fields(amount, rate, duration, admin_fees,
                                      remitted, loan_date, today)}

\* ------------------------------------------------- inputs of direct calls
BaseYear == 2024

\* the clock readings: 2024-07-01 06:00 and MaxTicks later ones
Now0 == Ymd2Ord(BaseYear, 7, 1) * TicksPerDay + TicksPerDay \div 4

TickStep == 15 * TicksPerDay + TicksPerDay \div 2

Clock == {Now0 + i * TickStep : i \in 0..MaxTicks}

\* 'YYYY-MM-DD' texts of the first five months, the impossible days included
DateTexts ==
    {[kind |-> "str", y |-> BaseYear, m |-> mm, d |-> dd] : mm \in 1..5, dd \in 1..31}

DateValues ==
    {[s EXCEPT !.kind = k] : s \in {t \in DateTexts : Parseable(t)},
                             k \in {"date", "datetime"}}

EngineDates == DateTexts \cup DateValues \cup {NoDate, NaT}

\* 0001-01-01, the first day a datetime can be at: a month before it is none
FirstDates == {[kind |-> k, y |-> 1, m |-> 1, d |-> 1] : k \in {"str", "datetime"}}

EngineDurations == {-1, 0, 1, 2, 3, 4}

\* dates of the calculate_loan_fields calls: the first two and the last day of a month
CalcDates == {dt \in EngineDates : dt.d \in {0, 1, 2, 31}}

CalcDurations == {0, 1, 2, 4}

EngineAmounts == {-5000000, 0, 10000335, 10000400, 10001000}

EngineRates == {0, 5}

EngineAdminFees == {0, 200000}

EngineRemitted == {0, 5000000, 11000000, 11001100}

PendingMonthsOverdue ==
    {[NoCall EXCEPT !.fn = "months_overdue", !.by = "direct",
                    !.loan_date = dt, !.duration = du, !.today = t] :
        dt \in EngineDates \cup FirstDates, du \in EngineDurations, t \in Clock}

PendingCalculate ==
    {[NoCall EXCEPT !.fn = "calculate_loan_fields", !.by = "direct",
                    !.amount = a, !.rate = r, !.duration = du, !.admin_fees = f,
                    !.remitted = p, !.loan_date = dt, !.today = t] :
        a \in EngineAmounts, r \in EngineRates, du \in CalcDurations,
        f \in EngineAdminFees, p \in EngineRemitted, dt \in CalcDates, t \in Clock}

\* ------------------------------------------- cache, users and session
\* a text is a sequence of pieces, " " being a blank one
Admin == <<"admin">>

\* an entry of st.cache_data: absent, or the frame a loader returned and the
\* seconds since
NoEntry == [hit |-> FALSE, age |-> 0, rows |-> <<>>]

Entry(rows) == [hit |-> TRUE, age |-> 0, rows |-> rows]

\* st.cache_data.clear(): the entries of every loader dropped
EmptyCache ==
    [loans |-> NoEntry, expenses |-> NoEntry, other_income |-> NoEntry, users |-> NoEntry]

\* @st.cache_data(ttl=...): the seconds an entry is kept
Ttl == [loans |-> 3, expenses |-> 3, other_income |-> 3, users |-> 10]

\* what a call of a cached loader returns: the frame kept, or what its body reads
CachedValue(entry, fresh) == IF entry.hit THEN entry.rows ELSE fresh

\* the entry a call of a cached loader leaves
CachedEntry(entry, fresh) == IF entry.hit THEN entry ELSE Entry(fresh)

\* bcrypt.hashpw(password, bcrypt.gensalt()), the salt left out
hashpw(password) == [bcrypt |-> password]

\* bcrypt.checkpw(password, hashed)
checkpw(password, hashed) == hashed = hashpw(password)

\* init_db() on a new database: the users table holds 'admin' / "password";
\* created_at is CURRENT_TIMESTAMP, here in seconds since that INSERT
InitUsers ==
    [seq  |-> 1,
     rows |-> <<[id |-> 1, username |-> Admin, password_hash |-> hashpw(<<"password">>),
                 created_at |-> 0]>>]

\* st.session_state.current_user: None, or the name signed in last
None == [set |-> FALSE, name |-> <<>>]

User(u) == [set |-> TRUE, name |-> u]

\* a new session: no flag set, nobody signed in
NoSession ==
    [general_auth |-> FALSE, add_loan_auth |-> FALSE, edit_loan_auth |-> FALSE,
     admin_auth |-> FALSE, current_user |-> None]

\* a session signed in as u at the sidebar and at every section
SignedIn(u) ==
    [general_auth |-> TRUE, add_loan_auth |-> TRUE, edit_loan_auth |-> TRUE,
     admin_auth |-> TRUE, current_user |-> User(u)]

\* the sections the sidebar offers
OpenPages == {"Dashboard", "View Records", "Reports"}

RestrictedPages == {"Add Loan", "Edit Loans", "Admin Controls"}

Pages(ss) == OpenPages \cup (IF ss.general_auth THEN RestrictedPages ELSE {})

NoOp == [op |-> "none", ok |-> FALSE, sn |-> 0, manual |-> FALSE, penalty_in |-> 0]

\* the browser sessions, each run by its own script thread
Sessions == {1, 2}

\* a session between two handler runs: no form shown, nothing loaded, nothing
\* to save, and no script run made so far
Idle == [pc |-> "idle", op |-> "none", sn |-> 0, form |-> <<>>, df |-> <<>>, runs |-> 0]

\* the session of that record between two runs again
Ended(p) == [Idle EXCEPT !.runs = p.runs]

AllIdle == [s \in Sessions |-> Idle]

\* A direct call: the arguments are drawn, the table is empty and untouched.
EngineInit ==
    /\ db_loans = <<>>
    /\ last = NoOp
    /\ call \in PendingMonthsOverdue \cup PendingCalculate
    /\ now = call.today
    /\ pending = AllIdle
    /\ cache = EmptyCache
    /\ db_users = InitUsers
    /\ db_expenses = <<>>
    /\ db_other_income = <<>>
    /\ loans_table = TRUE
    /\ session = NoSession

ApplyMonthsOverdue ==
    /\ call.fn = "months_overdue" /\ ~call.done
    /\ call' = [call EXCEPT !.done = TRUE,
                            !.months = months_overdue(call.loan_date, call.duration, now)]
    /\ UNCHANGED <<db_loans, now, last, pending, cache, books, session>>

ApplyCalculateLoanFields ==
    /\ call.fn = "calculate_loan_fields" /\ ~call.done
    /\ call' \in CalcCalls("direct", call.amount, call.rate, call.duration,
                           call.admin_fees, call.remitted, call.loan_date, now)
    /\ UNCHANGED <<db_loans, now, last, pending, cache, books, session>>

EngineNext == ApplyMonthsOverdue \/ ApplyCalculateLoanFields

EngineSpec == EngineInit /\ [][EngineNext]_vars

\* Direct calls on the loan principal 100000, rate 5 %, 3 months, admin fee
\* 2000, nothing remitted, for every date value and clock reading.
PendingScenario ==
    {[NoCall EXCEPT !.fn = f, !.by = "direct",
                    !.amount = 100000 * 10000, !.rate = 5, !.duration = 3,
                    !.admin_fees = 2000 * 10000, !.remitted = 0,
                    !.loan_date = dt, !.today = t] :
        f \in {"months_overdue", "calculate_loan_fields"},
        dt \in EngineDates, t \in Clock}

ScenarioInit ==
    /\ db_loans = <<>>
    /\ last = NoOp
    /\ call \in PendingScenario
    /\ now = call.today
    /\ pending = AllIdle
    /\ cache = EmptyCache
    /\ db_users = InitUsers
    /\ db_expenses = <<>>
    /\ db_other_income = <<>>
    /\ loans_table = TRUE
    /\ session = NoSession

ScenarioSpec == ScenarioInit /\ [][EngineNext]_vars

\* Direct calls on the loan principals 1000.0335, 1000.04 and 1000.10 at 5 %,
\* with amounts paid that leave the whole loan due, a few cents, half a cent,
\* a fraction of a cent or nothing (1100.11 is 1000.10 and its interest of
\* two months), or that are more than is due.  The interest of 1000.10 for
\* one month is 50.005, a half cent; that of 1000.0335 is 50.001675.
RoundingAmounts == {10000335, 10000400, 10001000}

RoundingRemitted == {0, 10500400, 10501000, 11000420, 11000400, 11001100, 12000000}

RoundingDates == {dt \in CalcDates : dt.d \in {0, 1}}

PendingRounding ==
    {[NoCall EXCEPT !.fn = f, !.by = "direct",
                    !.amount = a, !.rate = 5, !.duration = du,
                    !.admin_fees = 0, !.remitted = p,
                    !.loan_date = dt, !.today = t] :
        f \in {"months_overdue", "calculate_loan_fields"}, a \in RoundingAmounts,
        du \in {1, 2},
        p \in RoundingRemitted, dt \in RoundingDates, t \in Clock}

RoundingInit ==
    /\ db_loans = <<>>
    /\ last = NoOp
    /\ call \in PendingRounding
    /\ now = call.today
    /\ pending = AllIdle
    /\ cache = EmptyCache
    /\ db_users = InitUsers
    /\ db_expenses = <<>>
    /\ db_other_income = <<>>
    /\ loans_table = TRUE
    /\ session = NoSession

RoundingSpec == RoundingInit /\ [][EngineNext]_vars

\* ------------------------------------------------------- the loans table
\* Series.dt.strftime('%Y-%m-%d').where(notna, None): a Timestamp as text
StrfTime(dt) ==
    IF dt.kind \in {"none", "nat"} THEN NoDate ELSE [dt EXCEPT !.kind = "str"]

\* pd.to_datetime(text, errors='coerce'): text as a Timestamp, NaT if it is no date
ToDatetimeCoerce(s) ==
    IF s.kind \in {"none", "nat"} THEN NaT
    ELSE IF Parseable(s) THEN [s EXCEPT !.kind = "datetime"] ELSE NaT

\* ORDER BY sn ASC: row i goes to the place given by the number of rows before it
SortBySn(rows) ==
    LET n       == Len(rows)
        Rank(i) == Cardinality({j \in 1..n : \/ rows[j].sn < rows[i].sn
                                             \/ rows[j].sn = rows[i].sn /\ j <= i})
    IN  [k \in 1..n |-> rows[CHOOSE i \in 1..n : Rank(i) = k]]

\* load_loans_df(): the rows by serial, their dates as Timestamps
load_loans_df(db) ==
    SortBySn([i \in 1..Len(db) |-> [db[i] EXCEPT !.date = ToDatetimeCoerce(@)]])

\* what ORDER BY date DESC compares: the text 'YYYY-MM-DD'
DateKey(dt) == dt.y * 10000 + dt.m * 100 + dt.d

\* ORDER BY date DESC, rows of one date in the order of the table
SortByDateDesc(rows) ==
    LET n       == Len(rows)
        Rank(i) == Cardinality({j \in 1..n : \/ DateKey(rows[j].date) > DateKey(rows[i].date)
                                             \/ /\ DateKey(rows[j].date) = DateKey(rows[i].date)
                                                /\ j <= i})
    IN  [k \in 1..n |-> rows[CHOOSE i \in 1..n : Rank(i) = k]]

\* load_expenses_df(): the rows, latest date first, their dates as Timestamps
load_expenses_df(db) ==
    LET sorted == SortByDateDesc(db)
    IN  [i \in 1..Len(sorted) |-> [sorted[i] EXCEPT !.date = ToDatetimeCoerce(@)]]

\* load_other_income_df(): the rows, latest date first, their dates as Timestamps
load_other_income_df(db) ==
    LET sorted == SortByDateDesc(db)
    IN  [i \in 1..Len(sorted) |-> [sorted[i] EXCEPT !.date = ToDatetimeCoerce(@)]]

\* ORDER BY created_at DESC, rows of one instant in the order of the table
SortByCreatedDesc(rows) ==
    LET n       == Len(rows)
        Rank(i) == Cardinality({j \in 1..n : \/ rows[j].created_at > rows[i].created_at
                                             \/ /\ rows[j].created_at = rows[i].created_at
                                                /\ j <= i})
    IN  [k \in 1..n |-> rows[CHOOSE i \in 1..n : Rank(i) = k]]

\* load_users_df(): id, username and created_at of the users, latest first
load_users_df(db) ==
    LET sorted == SortByCreatedDesc(db.rows)
    IN  [i \in 1..Len(sorted) |->
            [id |-> sorted[i].id, username |-> sorted[i].username,
             created_at |-> sorted[i].created_at]]

\* a call of the cached loader of table t whose body reads fresh
AfterLoad(c, t, fresh) == [c EXCEPT ![t] = CachedEntry(@, fresh)]

\* the page is offered by the sidebar and its section flag is set
Routed(page, flag) == page \in Pages(session) /\ session[flag]

\* save_loans_df(df): the table replaced by the frame, its dates as text
save_loans_df(df) ==
    [i \in 1..Len(df) |-> [df[i] EXCEPT !.date = StrfTime(@)]]

\* the table taken for empty whatever it holds (used as a mutant).
MaxSnOfNone(df) == 0

\* current_df['sn'].max() if not current_df.empty else 0
MaxSn(df) ==
    IF df = <<>> THEN 0
    ELSE LET sns == {df[i].sn : i \in 1..Len(df)}
         IN  CHOOSE m \in sns : \A k \in sns : k <= m

\* current_df[current_df['sn'] != sn_to_delete]
DropSn(df, sn) == SelectSeq(df, LAMBDA r : r.sn # sn)

\* str.strip() on a text given as a sequence of characters
RECURSIVE LStrip(_)
LStrip(s) == IF s # <<>> /\ Head(s) = " " THEN LStrip(Tail(s)) ELSE s

RECURSIVE RStrip(_)
RStrip(s) ==
    IF s # <<>> /\ s[Len(s)] = " " THEN RStrip(SubSeq(s, 1, Len(s) - 1)) ELSE s

\* a strip() that removes nothing (used as a mutant).
StripNothing(s) == s

Strip(s) == RStrip(LStrip(s))

\* ------------------------------------------------------- form inputs
FormDate(mm, dd) == [kind |-> "date", y |-> BaseYear, m |-> mm, d |-> dd]

AddNames == {<<>>, <<" ">>, <<"A", " ">>}

AddDates == {FormDate(1, 15)}

AddPrincipals == {a \in {10000400} : a >= MinAddPrincipal}

AddRates == {5}

AddMonths == {1}

AddAdminFees == {0}

AddPaid == {0}

EditAmounts == {0}

EditRemitted == {0, 12000000}

EditPenalties == {0, 1000040}

\* ------------------------------------------------------------ handlers
Init ==
    /\ db_loans = <<>>
    /\ now = Now0
    /\ call = NoCall
    /\ last = NoOp
    /\ pending = AllIdle
    /\ cache = EmptyCache
    /\ db_users = InitUsers
    /\ db_expenses = <<>>
    /\ db_other_income = <<>>
    /\ loans_table = TRUE
    /\ session = SignedIn(Admin)

\* Add Loan: "Save Loan" submitted
AddLoan(name, disp_date, principal, rate_pct, months, admin_fee, already_paid) ==
    Routed("Add Loan", "add_loan_auth") /\
    IF Strip(name) # <<>> /\ principal > 0
    THEN \E c \in CalcCalls("AddLoan", principal, rate_pct, months, admin_fee,
                            already_paid, disp_date, now),
            current_df \in {CachedValue(cache.loans, load_loans_df(db_loans))} :
            LET sn_next == MaxSn(current_df) + 1
                new_row == [sn |-> sn_next,
                            names |-> Strip(name),
                            date |-> ToDatetime(disp_date),
                            amount |-> principal,
                            int_rate |-> rate_pct,
                            duration |-> months,
                            admin_fees |-> admin_fee,
                            interest |-> c.result.interest,
                            penalty_charged |-> c.result.penalty,
                            total |-> c.result.total_add,
                            g_total |-> c.result.g_total,
                            amt_remitted |-> already_paid,
                            balance |-> c.result.balance]
            IN  /\ Len(db_loans) < MaxLoans
                /\ sn_next <= MaxSerial
                /\ db_loans' = save_loans_df(Append(current_df, new_row))
                /\ call' = c
                /\ last' = [op |-> "AddLoan", ok |-> TRUE, sn |-> sn_next,
                            manual |-> FALSE, penalty_in |-> 0]
                /\ cache' = EmptyCache
                /\ UNCHANGED <<now, pending, books, session>>
    ELSE /\ call' = NoCall
         /\ last' = [op |-> "AddLoan", ok |-> FALSE, sn |-> 0,
                     manual |-> FALSE, penalty_in |-> 0]
         /\ UNCHANGED <<db_loans, now, pending, cache, books, session>>

\* "Save Changes" whose manual penalty mode stores the grand total as the
\* balance (used as a mutant).
EditDerivedBalanceDue(auto, edit_amount, edit_rate, edit_duration, edit_admin_fee, edit_penalty) ==
    LET pure_interest == Interest(edit_amount, edit_rate, edit_duration)
        total_add     == Shift(pure_interest, edit_admin_fee + edit_penalty)
    IN  IF edit_penalty > 0
        THEN {res \in [interest  : Round2(pure_interest),
                       penalty   : Round2(Whole(edit_penalty)),
                       total_add : Round2(total_add),
                       g_total   : Round2(Shift(total_add, edit_amount)),
                       balance   : Round2(Shift(total_add, edit_amount))] :
                 res.balance = res.g_total}
        ELSE {auto}

\* "Save Changes" in the manual penalty mode whatever the input (used as a mutant).
EditDerivedAlwaysManual(auto, edit_amount, edit_rate, edit_duration, edit_admin_fee, edit_penalty) ==
    LET pure_interest == Interest(edit_amount, edit_rate, edit_duration)
        total_add     == Shift(pure_interest, edit_admin_fee + edit_penalty)
    IN  [interest  : Round2(pure_interest),
         penalty   : Round2(Whole(edit_penalty)),
         total_add : Round2(total_add),
         g_total   : Round2(Shift(total_add, edit_amount)),
         balance   : {0}]

\* the derived fields "Save Changes" can store: the manual penalty mode when
\* edit_penalty > 0, the automatic calculation otherwise.  auto is the tuple
\* calculate_loan_fields returned for the inputs of the form; pure_interest
\* is the float that call rounded to auto.interest, and rounds to it again.
EditDerived(auto, edit_amount, edit_rate, edit_duration, edit_admin_fee, edit_penalty) ==
    LET pure_interest == Interest(edit_amount, edit_rate, edit_duration)
        manual        == edit_penalty > 0
        final_penalty == Whole(IF manual THEN edit_penalty ELSE auto.penalty)
        total_add     == IF manual
                         THEN Shift(Plus(pure_interest, final_penalty), edit_admin_fee)
                         ELSE Whole(auto.total_add)
        g_total       == IF manual THEN Shift(total_add, edit_amount)
                         ELSE Whole(auto.g_total)
        balance       == Whole(IF manual THEN 0 ELSE auto.balance)
    IN  {res \in [interest  : Round2(pure_interest),
                  penalty   : Round2(final_penalty),
                  total_add : Round2(total_add),
                  g_total   : Round2(g_total),
                  balance   : Round2(Max(balance, Whole(0)))] :
            manual \/ res.interest = auto.interest}

\* an edit that also moves the row to the next serial (used as a mutant).
EditedRowNextSerial(row, edit_name, edit_date, edit_amount, edit_rate, edit_duration, edit_admin_fee, edit_remitted, derived) ==
    [row EXCEPT !.sn = row.sn + 1,
                !.names = Strip(edit_name),
                !.date = ToDatetime(edit_date),
                !.amount = edit_amount,
                !.int_rate = edit_rate,
                !.duration = edit_duration,
                !.admin_fees = edit_admin_fee,
                !.amt_remitted = edit_remitted,
                !.interest = derived.interest,
                !.penalty_charged = derived.penalty,
                !.total = derived.total_add,
                !.g_total = derived.g_total,
                !.balance = derived.balance]

\* fresh_df.loc[mask, ...] = ...: the row Edit Loans writes over a selected row
EditedRow(row, edit_name, edit_date, edit_amount, edit_rate, edit_duration, edit_admin_fee, edit_remitted, derived) ==
    [row EXCEPT !.names = Strip(edit_name),
                !.date = ToDatetime(edit_date),
                !.amount = edit_amount,
                !.int_rate = edit_rate,
                !.duration = edit_duration,
                !.admin_fees = edit_admin_fee,
                !.amt_remitted = edit_remitted,
                !.interest = derived.interest,
                !.penalty_charged = derived.penalty,
                !.total = derived.total_add,
                !.g_total = derived.g_total,
                !.balance = derived.balance]

\* the value st.date_input shows for a row: its date, or today when it has none
EditDateDefault(row, today) ==
    IF NotNa(row.date) THEN [row.date EXCEPT !.kind = "date"]
    ELSE LET ord == today \div TicksPerDay
             mm  == CHOOSE k \in 1..12 :
                        /\ Ymd2Ord(BaseYear, k, 1) <= ord
                        /\ ord < Ymd2Ord(BaseYear, k, 1) + DaysInMonth(BaseYear, k)
         IN  FormDate(mm, ord - Ymd2Ord(BaseYear, mm, 1) + 1)

\* Edit Loans: "Save Changes" submitted for the selected row, with the name,
\* date, rate, duration and admin fee left as the form shows them
EditSave(i, edit_amount, edit_remitted, edit_penalty) ==
    Routed("Edit Loans", "edit_loan_auth") /\
    \E fresh_df \in {load_loans_df(db_loans)} :
    \E selected_row \in {fresh_df[i]} :
    \E edit_date \in {EditDateDefault(selected_row, now)} :
    \E c \in IF edit_penalty > 0 THEN {NoCall}
             ELSE CalcCalls("EditSave", edit_amount, selected_row.int_rate,
                            selected_row.duration, selected_row.admin_fees,
                            edit_remitted, edit_date, now) :
    \E derived \in EditDerived(c.result, edit_amount, selected_row.int_rate,
                               selected_row.duration, selected_row.admin_fees,
                               edit_penalty) :
        /\ db_loans' = save_loans_df(
               [j \in 1..Len(fresh_df) |->
                   IF fresh_df[j].sn = selected_row.sn
                   THEN EditedRow(fresh_df[j], selected_row.names, edit_date,
                                  edit_amount, selected_row.int_rate,
                                  selected_row.duration, selected_row.admin_fees,
                                  edit_remitted, derived)
                   ELSE fresh_df[j]])
        /\ call' = c
        /\ last' = [op |-> "EditSave", ok |-> TRUE, sn |-> selected_row.sn,
                    manual |-> edit_penalty > 0, penalty_in |-> edit_penalty]
        /\ cache' = EmptyCache
        /\ UNCHANGED <<now, pending, books, session>>

\* the Preview column of the edit form, shown with the stored values of a row
PreviewCalls(selected_row, today) ==
    IF selected_row.penalty_charged > 0 THEN {NoCall}
    ELSE CalcCalls("EditPreview", selected_row.amount, selected_row.int_rate,
                   selected_row.duration, selected_row.admin_fees,
                   selected_row.amt_remitted, EditDateDefault(selected_row, today),
                   today)

\* what the two st.button calls of the delete block return in one run: a
\* button returns True in the run its click starts and False in every other,
\* and "Yes, Delete Permanently" is drawn, inside the popover, only in a run
\* where "Delete This Record" has returned True
DeleteClicks == {<<TRUE, FALSE>>, <<FALSE, TRUE>>}

\* Edit Loans: the run a click on "Delete This Record" starts, and the run a
\* click on "Yes, Delete Permanently" in the popover starts.  The lines that
\* delete are under both buttons; the form and its preview follow.
DeleteLoan(i, delete_this_record, yes_delete) ==
    Routed("Edit Loans", "edit_loan_auth") /\
    \E df \in {load_loans_df(db_loans)} :
    \E selected_row \in {df[i]} :
        IF delete_this_record /\ yes_delete
        THEN \E current_df \in {load_loans_df(db_loans)} :
                LET sn_to_delete == selected_row.sn
                IN  /\ db_loans' = save_loans_df(DropSn(current_df, sn_to_delete))
                    /\ call' = NoCall
                    /\ last' = [op |-> "DeleteLoan", ok |-> TRUE, sn |-> sn_to_delete,
                                manual |-> FALSE, penalty_in |-> 0]
                    /\ cache' = EmptyCache
                    /\ UNCHANGED <<now, pending, books, session>>
        ELSE /\ call' \in PreviewCalls(selected_row, now)
             /\ last' = [op |-> IF yes_delete THEN "DeleteLoan" ELSE "DeleteThisRecord",
                         ok |-> FALSE, sn |-> selected_row.sn,
                         manual |-> FALSE, penalty_in |-> 0]
             /\ cache' = [EmptyCache EXCEPT !.loans = Entry(df)]
             /\ UNCHANGED <<db_loans, now, pending, books, session>>

\* Admin Controls: "RESET ALL LOAN DATA"; last keeps the highest serial among
\* the rows it removes (0 when there is none)
ResetLoans ==
    /\ Routed("Admin Controls", "admin_auth")
    /\ db_loans' = save_loans_df(<<>>)
    /\ call' = NoCall
    /\ last' = [op |-> "ResetLoans", ok |-> TRUE, sn |-> MaxSn(db_loans),
                manual |-> FALSE, penalty_in |-> 0]
    /\ cache' = EmptyCache
    /\ UNCHANGED <<now, pending, books, session>>

\* the stored penalties following the clock (used as a mutant of Tick).
TickAccruing ==
    /\ now + TickStep \in Clock
    /\ now' = now + TickStep
    /\ db_loans' = [i \in 1..Len(db_loans) |->
           [db_loans[i] EXCEPT !.penalty_charged =
               (Penalty(db_loans[i].amount,
                        months_overdue(db_loans[i].date, db_loans[i].duration,
                                       now + TickStep)).u \div Cent) * Cent]]
    /\ cache' = EmptyCache
    /\ UNCHANGED <<call, last, pending, books, session>>

\* time passes: half a month, longer than any entry of the cache is kept
Tick ==
    /\ now + TickStep \in Clock
    /\ now' = now + TickStep
    /\ cache' = EmptyCache
    /\ UNCHANGED <<db_loans, call, last, pending, books, session>>

\* loans_filtered['penalty_charged'].sum() over the rows of a frame
RECURSIVE SumPenalty(_)
SumPenalty(df) ==
    IF df = <<>> THEN 0 ELSE Head(df).penalty_charged + SumPenalty(Tail(df))

\* the pages that only show the table: Dashboard, View Records and Reports
ViewPages == {"Dashboard", "View Records", "Reports"}

\* a run of one of these pages: the table is loaded and shown; Reports adds
\* up the stored penalties (with interest and admin fees) as revenue
ViewPage(page) ==
    page \in Pages(session) /\ (page = "Reports" => session.general_auth) /\
    \E df \in {CachedValue(cache.loans, load_loans_df(db_loans))} :
        /\ last' = [op |-> page, ok |-> TRUE, sn |-> 0, manual |-> FALSE,
                    penalty_in |-> IF page = "Reports" THEN SumPenalty(df) ELSE 0]
        /\ call' = NoCall
        /\ cache' = IF page = "Reports"
                    THEN AfterLoad(AfterLoad(AfterLoad(cache, "loans", df),
                                             "expenses", load_expenses_df(db_expenses)),
                                   "other_income", load_other_income_df(db_other_income))
                    ELSE AfterLoad(cache, "loans", df)
        /\ UNCHANGED <<db_loans, now, pending, books, session>>

\* Edit Loans: the form of the selected row is shown with the stored values,
\* and its Preview column computed
EditPreview(i) ==
    Routed("Edit Loans", "edit_loan_auth") /\
    \E df \in {load_loans_df(db_loans)} :
    \E selected_row \in {df[i]} :
        /\ call' \in PreviewCalls(selected_row, now)
        /\ last' = [op |-> "EditPreview", ok |-> TRUE, sn |-> selected_row.sn,
                    manual |-> selected_row.penalty_charged > 0,
                    penalty_in |-> selected_row.penalty_charged]
        /\ cache' = [EmptyCache EXCEPT !.loans = Entry(df)]
        /\ UNCHANGED <<db_loans, now, pending, books, session>>

DoViewPage == \E page \in ViewPages : ViewPage(page)

DoEditPreview == \E i \in 1..Len(db_loans) : EditPreview(i)

DoAddLoan ==
    \E name \in AddNames, disp_date \in AddDates, principal \in AddPrincipals,
       rate_pct \in AddRates, months \in AddMonths, admin_fee \in AddAdminFees,
       already_paid \in AddPaid :
        AddLoan(name, disp_date, principal, rate_pct, months, admin_fee, already_paid)

DoEditSave ==
    \E i \in 1..Len(db_loans) :
        \E edit_amount \in EditAmounts \cup {db_loans[i].amount},
           edit_remitted \in EditRemitted \cup {db_loans[i].amt_remitted},
           edit_penalty \in EditPenalties \cup {db_loans[i].penalty_charged} :
            EditSave(i, edit_amount, edit_remitted, edit_penalty)

DoDeleteLoan ==
    \E i \in 1..Len(db_loans), clicks \in DeleteClicks :
        DeleteLoan(i, clicks[1], clicks[2])

Next == DoAddLoan \/ DoEditSave \/ DoDeleteLoan \/ ResetLoans \/ Tick

Spec == Init /\ [][Next]_vars

\* The handlers together with the pages that show the table; the edits are
\* those of the penalty input, the other inputs left as the form shows them.
DoEditPenalty ==
    \E i \in 1..Len(db_loans) :
        \E edit_penalty \in EditPenalties \cup {db_loans[i].penalty_charged} :
            EditSave(i, db_loans[i].amount, db_loans[i].amt_remitted, edit_penalty)

PagesNext ==
    \/ DoAddLoan \/ DoEditPenalty \/ DoDeleteLoan \/ ResetLoans \/ Tick
    \/ DoViewPage \/ DoEditPreview

PagesSpec == Init /\ [][PagesNext]_vars

\* ------------------------------------------------- two sessions at once
\* The script threads of two sessions share the database and the cache and
\* nothing orders their steps.  A run begins with init_db(); a handler then
\* loads the whole table, builds the frame to store and saves it.  The save
\* is to_sql('loans', conn, if_exists='replace'): the test whether the table
\* is there, DROP TABLE, CREATE TABLE, then the INSERT of the rows with its
\* commit, each seen by the other session as soon as it is done, and
\* st.cache_data.clear() after them.  Below a run is these steps: RunStart;
\* on Add Loan LoadForAdd; on Edit Loans EditClear, then OpenForEdit and
\* LoadForEdit, or OpenForEditEmpty, or EditLoadRaises; then SaveTest,
\* SaveDrop, SaveCreate, SaveInsert, SaveClear.  A step that raises ends the
\* run.  Seconds pass between the steps, and the cache drops a frame it has
\* kept for its ttl.
RaceRemitted == {5000000}

\* the run of a session ends on an exception
Raised(s, op, sn) ==
    /\ pending' = [pending EXCEPT ![s] = Ended(@)]
    /\ last' = [op |-> op, ok |-> FALSE, sn |-> sn, manual |-> FALSE, penalty_in |-> 0]

\* a script run begins: init_db(), CREATE TABLE IF NOT EXISTS loans
RunStart(s) ==
    /\ pending[s].pc = "idle"
    /\ pending[s].runs < MaxRuns
    /\ pending' = [pending EXCEPT ![s] = [@ EXCEPT !.pc = "started", !.runs = @ + 1]]
    /\ loans_table' = TRUE
    /\ UNCHANGED <<db_loans, now, call, last, cache, db_users, db_expenses,
                   db_other_income, session>>

\* Add Loan up to updated_df = pd.concat([current_df, new_row]): the engine
\* call, then current_df = load_loans_df(), which raises when the cache keeps
\* no frame and there is no table to read; a blank name or a principal not
\* above 0 is refused with st.error and the run ends
LoadForAdd(s, name, disp_date, principal, rate_pct, months, admin_fee, already_paid) ==
    /\ pending[s].pc = "started"
    /\ Routed("Add Loan", "add_loan_auth")
    /\ IF ~(Strip(name) # <<>> /\ principal > 0)
       THEN /\ pending' = [pending EXCEPT ![s] = Ended(@)]
            /\ call' = NoCall
            /\ last' = [op |-> "AddLoan", ok |-> FALSE, sn |-> 0,
                        manual |-> FALSE, penalty_in |-> 0]
            /\ UNCHANGED <<db_loans, now, cache, books, session>>
       ELSE
       IF cache.loans.hit \/ loans_table
       THEN \E c \in CalcCalls("AddLoan", principal, rate_pct, months, admin_fee,
                               already_paid, disp_date, now),
               current_df \in {CachedValue(cache.loans, load_loans_df(db_loans))} :
               LET sn_next == MaxSn(current_df) + 1
                   new_row == [sn |-> sn_next,
                               names |-> Strip(name),
                               date |-> ToDatetime(disp_date),
                               amount |-> principal,
                               int_rate |-> rate_pct,
                               duration |-> months,
                               admin_fees |-> admin_fee,
                               interest |-> c.result.interest,
                               penalty_charged |-> c.result.penalty,
                               total |-> c.result.total_add,
                               g_total |-> c.result.g_total,
                               amt_remitted |-> already_paid,
                               balance |-> c.result.balance]
               IN  /\ Len(current_df) < MaxLoans
                   /\ sn_next <= MaxSerial
                   /\ pending' = [pending EXCEPT ![s] =
                                     [@ EXCEPT !.pc = "loaded", !.op = "AddLoan",
                                               !.sn = sn_next,
                                               !.df = Append(current_df, new_row)]]
                   /\ call' = c
                   /\ cache' = AfterLoad(cache, "loans", current_df)
                   /\ UNCHANGED <<db_loans, now, last, books, session>>
       ELSE \E c \in CalcCalls("AddLoan", principal, rate_pct, months, admin_fee,
                               already_paid, disp_date, now) :
               /\ Raised(s, "AddLoan", 0)
               /\ call' = c
               /\ UNCHANGED <<db_loans, now, cache, books, session>>

\* Edit Loans, line 1026: st.cache_data.clear() on entering the page; the
\* frames of every loader are dropped, for every session
EditClear(s) ==
    /\ pending[s].pc = "started"
    /\ Routed("Edit Loans", "edit_loan_auth")
    /\ pending' = [pending EXCEPT ![s] = [@ EXCEPT !.pc = "cleared", !.op = "EditSave"]]
    /\ cache' = EmptyCache
    /\ UNCHANGED <<db_loans, now, call, last, books, session>>

\* Edit Loans from line 1027 up to the form: df = load_loans_df(), which
\* reads the table, or returns the frame another session's load has put into
\* the cache since line 1026; df is not empty, its row i is selected, the
\* amount paid is edited and every other input left as the form shows it
OpenForEdit(s, i, edit_remitted) ==
    /\ pending[s].pc = "cleared"
    /\ cache.loans.hit \/ loans_table
    /\ \E df \in {CachedValue(cache.loans, load_loans_df(db_loans))} :
           /\ i \in 1..Len(df)
           /\ pending' = [pending EXCEPT ![s] =
                  [@ EXCEPT !.pc = "opened", !.sn = df[i].sn,
                            !.form = <<[selected_row  |-> df[i],
                                        edit_remitted |-> edit_remitted]>>]]
           /\ cache' = AfterLoad(cache, "loans", df)
           /\ UNCHANGED <<db_loans, now, call, last, books, session>>

\* Edit Loans from line 1027 on an empty frame: df = load_loans_df() is kept
\* by the cache, "No loans exist yet" is shown and the run ends with no form
OpenForEditEmpty(s) ==
    /\ pending[s].pc = "cleared"
    /\ cache.loans.hit \/ loans_table
    /\ \E df \in {CachedValue(cache.loans, load_loans_df(db_loans))} :
           /\ df = <<>>
           /\ pending' = [pending EXCEPT ![s] = Ended(@)]
           /\ cache' = AfterLoad(cache, "loans", df)
           /\ UNCHANGED <<db_loans, now, call, last, books, session>>

\* Edit Loans, line 1027, between the DROP TABLE and the CREATE TABLE of
\* another session's save: the cache keeps no frame and load_loans_df raises
\* on its SELECT ("no such table: loans")
EditLoadRaises(s) ==
    /\ pending[s].pc = "cleared"
    /\ ~cache.loans.hit /\ ~loans_table
    /\ Raised(s, "EditSave", 0)
    /\ UNCHANGED <<db_loans, now, call, cache, books, session>>

\* Save Changes up to the last fresh_df.loc[mask, ...] = ...: the derived
\* fields, then fresh_df = load_loans_df(), which returns the frame the cache
\* keeps, reads the table when the cache keeps none (another session has
\* cleared it since the form was built, or the ttl of the frame is over), and
\* raises when there is no table to read then.  The
\* rows of fresh_df with the serial of the selected row are written over;
\* there may be none.
LoadForEdit(s) ==
    /\ pending[s].pc = "opened"
    /\ \E selected_row \in {pending[s].form[1].selected_row},
          edit_remitted \in {pending[s].form[1].edit_remitted} :
       \E edit_date \in {EditDateDefault(selected_row, now)} :
       \E c \in IF selected_row.penalty_charged > 0 THEN {NoCall}
                ELSE CalcCalls("EditSave", selected_row.amount, selected_row.int_rate,
                               selected_row.duration, selected_row.admin_fees,
                               edit_remitted, edit_date, now) :
       \E derived \in EditDerived(c.result, selected_row.amount,
                                  selected_row.int_rate, selected_row.duration,
                                  selected_row.admin_fees,
                                  selected_row.penalty_charged) :
           /\ call' = c
           /\ IF cache.loans.hit \/ loans_table
              THEN \E fresh_df \in {CachedValue(cache.loans, load_loans_df(db_loans))} :
                      /\ pending' = [pending EXCEPT ![s] =
                            [@ EXCEPT !.pc = "loaded", !.form = <<>>,
                                      !.df = [j \in 1..Len(fresh_df) |->
                                                IF fresh_df[j].sn = selected_row.sn
                                                THEN EditedRow(fresh_df[j], selected_row.names,
                                                               edit_date, selected_row.amount,
                                                               selected_row.int_rate,
                                                               selected_row.duration,
                                                               selected_row.admin_fees,
                                                               edit_remitted, derived)
                                                ELSE fresh_df[j]]]]
                      /\ cache' = AfterLoad(cache, "loans", fresh_df)
                      /\ UNCHANGED <<db_loans, now, last, books, session>>
              ELSE /\ Raised(s, "EditSave", selected_row.sn)
                   /\ UNCHANGED <<db_loans, now, cache, books, session>>

\* save_loans_df, to_sql: the test whether table loans is there (a SELECT on
\* sqlite_master); the DROP TABLE is left out when it is not
SaveTest(s) ==
    /\ pending[s].pc = "loaded"
    /\ pending' = [pending EXCEPT ![s].pc = IF loans_table THEN "tested" ELSE "dropped"]
    /\ UNCHANGED <<db_loans, now, call, last, cache, books, session>>

\* save_loans_df, to_sql: DROP TABLE loans; it raises ("no such table: loans")
\* when the save of another run has dropped the table since the test, and
\* nothing of the frame is written
SaveDrop(s) ==
    /\ pending[s].pc = "tested"
    /\ IF loans_table
       THEN /\ db_loans' = <<>>
            /\ loans_table' = FALSE
            /\ pending' = [pending EXCEPT ![s].pc = "dropped"]
            /\ UNCHANGED last
       ELSE /\ Raised(s, pending[s].op, pending[s].sn)
            /\ UNCHANGED <<db_loans, loans_table>>
    /\ UNCHANGED <<now, call, cache, db_users, db_expenses, db_other_income,
                   session>>

\* save_loans_df, to_sql: CREATE TABLE loans; it raises ("table loans already
\* exists") when init_db() or the save of another run has made the table
\* since the DROP, and nothing of the frame is written
SaveCreate(s) ==
    /\ pending[s].pc = "dropped"
    /\ IF loans_table
       THEN /\ Raised(s, pending[s].op, pending[s].sn)
            /\ UNCHANGED loans_table
       ELSE /\ loans_table' = TRUE
            /\ pending' = [pending EXCEPT ![s].pc = "created"]
            /\ UNCHANGED last
    /\ UNCHANGED <<db_loans, now, call, cache, db_users, db_expenses, db_other_income,
                   session>>

\* save_loans_df, to_sql: INSERT of the rows of the frame, committed; the
\* rows go into the table that is there, next to what it holds, and the
\* INSERT raises when there is none.  No INSERT is sent for a frame without
\* rows, so nothing is read of the table then and to_sql returns.  (With
\* two sessions the table an INSERT finds was made by a CREATE TABLE of
\* to_sql, which puts no constraint on a column.)
SaveInsert(s) ==
    /\ pending[s].pc = "created"
    /\ IF pending[s].df = <<>> \/ loans_table
       THEN /\ db_loans' = db_loans \o save_loans_df(pending[s].df)
            /\ pending' = [pending EXCEPT ![s].pc = "inserted"]
            /\ UNCHANGED last
       ELSE /\ Raised(s, pending[s].op, pending[s].sn)
            /\ UNCHANGED db_loans
    /\ UNCHANGED <<now, call, cache, books, session>>

\* save_loans_df: st.cache_data.clear() after to_sql has returned
SaveClear(s) ==
    /\ pending[s].pc = "inserted"
    /\ cache' = EmptyCache
    /\ pending' = [pending EXCEPT ![s] = Ended(@)]
    /\ last' = [op |-> pending[s].op, ok |-> TRUE, sn |-> pending[s].sn,
                manual |-> FALSE, penalty_in |-> 0]
    /\ UNCHANGED <<db_loans, now, call, books, session>>

DoLoadForAdd(s) ==
    \E name \in AddNames, disp_date \in AddDates, principal \in AddPrincipals,
       rate_pct \in AddRates, months \in AddMonths, admin_fee \in AddAdminFees,
       already_paid \in AddPaid :
        LoadForAdd(s, name, disp_date, principal, rate_pct, months, admin_fee,
                   already_paid)

DoOpenForEdit(s) ==
    \E i \in 1..Len(CachedValue(cache.loans, load_loans_df(db_loans))) :
        \E edit_remitted \in RaceRemitted :
            OpenForEdit(s, i, edit_remitted)

\* a second passes: every entry is a second older, and dropped at its ttl
Second ==
    /\ \E t \in DOMAIN cache : cache[t].hit
    /\ cache' = [t \in DOMAIN cache |->
                    IF cache[t].hit /\ cache[t].age + 1 < Ttl[t]
                    THEN [cache[t] EXCEPT !.age = @ + 1]
                    ELSE NoEntry]
    /\ UNCHANGED <<db_loans, now, call, last, pending, books, session>>

RaceNext ==
    \/ Second
    \/ \E s \in Sessions :
        \/ RunStart(s) \/ DoLoadForAdd(s)
        \/ EditClear(s) \/ DoOpenForEdit(s) \/ OpenForEditEmpty(s) \/ EditLoadRaises(s)
        \/ LoadForEdit(s)
        \/ SaveTest(s) \/ SaveDrop(s) \/ SaveCreate(s) \/ SaveInsert(s) \/ SaveClear(s)

RaceSpec == Init /\ [][RaceNext]_vars

\* Direct calls and the handlers together: a direct call, then the application.
FullInit == Init \/ EngineInit

FullNext == Next \/ EngineNext

FullSpec == FullInit /\ [][FullNext]_vars

\* ------------------------------------------ users, books and sign-in
\* add_new_user(username, password) at the second CURRENT_TIMESTAMP reads as
\* at: the INSERT, refused when the name is taken
add_new_user(db, username, password, at) ==
    IF \E i \in 1..Len(db.rows) : db.rows[i].username = username
    THEN [ok |-> FALSE, db |-> db]
    ELSE [ok |-> TRUE,
          db |-> [seq  |-> db.seq + 1,
                  rows |-> Append(db.rows,
                                  [id |-> db.seq + 1, username |-> username,
                                   password_hash |-> hashpw(password),
                                   created_at |-> at])]]

\* a delete by id alone (used as a mutant).
delete_user_unguarded(db, user_id, current_username) ==
    [db EXCEPT !.rows = SelectSeq(@, LAMBDA r : r.id # user_id)]

\* delete_user(user_id, current_username): DELETE ... WHERE id = ? AND
\* username != ? AND username != 'admin'; a NULL parameter matches no row
delete_user(db, user_id, current_username) ==
    [db EXCEPT !.rows =
        SelectSeq(@, LAMBDA r : ~(/\ r.id = user_id
                                  /\ current_username.set
                                  /\ r.username # current_username.name
                                  /\ r.username # Admin))]

\* verify_login(username, password)
verify_login(db, username, password) ==
    \E i \in 1..Len(db.rows) :
        /\ db.rows[i].username = username
        /\ checkpw(password, db.rows[i].password_hash)

NewUsernames == {<<" ">>, Admin, <<"bob", " ">>}

NewPasswords == {<<"pw">>}

LoginNames == {Admin, <<" ", "bob">>}

LoginPasswords == {<<"password">>, <<"pw">>}

\* the frames the Admin Controls page has loaded when a button of it is handled
AdminLoaded == AfterLoad(cache, "users", load_users_df(db_users))

\* the second of the row made last: the table is never empty, the row of
\* 'admin' stays
LatestCreated(db) ==
    CHOOSE t \in {db.rows[i].created_at : i \in 1..Len(db.rows)} :
        \A i \in 1..Len(db.rows) : db.rows[i].created_at <= t

\* what CURRENT_TIMESTAMP can read at an INSERT: the second of the row made
\* last, or a later one
CreatedAts(db) == {LatestCreated(db), LatestCreated(db) + 1}

\* Admin Controls after a successful add_new_user: st.success(...), then
\* st.cache_data.clear().  The script runner ends a run at an element call
\* when the session has asked for a rerun or has stopped meanwhile; a run
\* ended at st.success leaves the cache as it is.
CachesAfterCreate == {EmptyCache, cache}

\* Admin Controls: "Create User" submitted, CURRENT_TIMESTAMP reading as at
CreateUser(new_username, new_password, at) ==
    /\ Routed("Admin Controls", "admin_auth")
    /\ call' = NoCall
    /\ IF Strip(new_username) # <<>> /\ Strip(new_password) # <<>>
       THEN \E r \in {add_new_user(db_users, Strip(new_username),
                                   Strip(new_password), at)} :
                /\ r.ok => r.db.seq <= MaxUserId
                /\ db_users' = r.db
                /\ cache' \in IF r.ok THEN CachesAfterCreate ELSE {AdminLoaded}
                /\ last' = [op |-> "CreateUser", ok |-> r.ok,
                            sn |-> IF r.ok THEN r.db.seq ELSE 0,
                            manual |-> FALSE, penalty_in |-> 0]
       ELSE /\ db_users' = db_users
            /\ cache' = AdminLoaded
            /\ last' = [op |-> "CreateUser", ok |-> FALSE, sn |-> 0,
                        manual |-> FALSE, penalty_in |-> 0]
    /\ UNCHANGED <<db_loans, now, pending, db_expenses, db_other_income, loans_table, session>>

\* Admin Controls: "Delete" pressed on row i of the users shown, a button the
\* row of the current user does not have
DeleteUser(i) ==
    /\ Routed("Admin Controls", "admin_auth")
    /\ \E users \in {CachedValue(cache.users, load_users_df(db_users))} :
           /\ i \in 1..Len(users)
           /\ users[i].username # session.current_user.name
           /\ db_users' = delete_user(db_users, users[i].id, session.current_user)
           /\ last' = [op |-> "DeleteUser", ok |-> TRUE, sn |-> users[i].id,
                       manual |-> FALSE, penalty_in |-> 0]
    /\ call' = NoCall
    /\ cache' = EmptyCache
    /\ UNCHANGED <<db_loans, now, pending, db_expenses, db_other_income, loans_table, session>>

\* Admin Controls shown, no button pressed: the users are loaded and listed
AdminPage ==
    /\ Routed("Admin Controls", "admin_auth")
    /\ cache' = AdminLoaded
    /\ call' = NoCall
    /\ last' = [op |-> "Admin Controls", ok |-> TRUE, sn |-> 0,
                manual |-> FALSE, penalty_in |-> 0]
    /\ UNCHANGED <<db_loans, now, pending, books, session>>

DoCreateUser ==
    \E new_username \in NewUsernames, new_password \in NewPasswords,
       at \in CreatedAts(db_users) :
        CreateUser(new_username, new_password, at)

DoDeleteUser == \E i \in 1..Len(db_users.rows) : DeleteUser(i)

\* the frames the Reports page has loaded when one of its forms is handled
ReportsLoaded ==
    AfterLoad(AfterLoad(AfterLoad(cache, "loans", load_loans_df(db_loans)),
                        "expenses", load_expenses_df(db_expenses)),
              "other_income", load_other_income_df(db_other_income))

\* the row an INSERT INTO expenses / other_income adds
BookRow(db, category, amount, date_str, description) ==
    [id |-> Len(db) + 1, category |-> category, amount |-> amount,
     date |-> date_str, description |-> description]

\* save_other_income(category, amount, date_str, description), the table it leaves
save_other_income(db, category, amount, date_str, description) ==
    Append(db, BookRow(db, category, amount, date_str, description))

\* save_expense(category, amount, date_str, description), the table it leaves
save_expense(db, category, amount, date_str, description) ==
    Append(db, BookRow(db, category, amount, date_str, description))

IncomeCategories == {<<"Other Income">>, <<"Custom">>}

ExpenseCategories == {<<"Allowances">>, <<"Other">>}

CustomCategories == {<<>>}

IncomeAmounts == {0, 5000000}

ExpenseAmounts == {-5000000}

BookDates == {FormDate(1, 15), FormDate(2, 1)}

\* st.cache_data.clear() at the end of save_expense and save_other_income
CacheAfterSave == EmptyCache

\* Reports: "Record Income" submitted
RecordIncome(inc_category, custom_cat, inc_amount, inc_date) ==
    /\ "Reports" \in Pages(session) /\ session.general_auth
    /\ call' = NoCall
    /\ LET final_cat == IF inc_category = <<"Custom">> THEN custom_cat ELSE inc_category
       IN  IF final_cat # <<>> /\ inc_amount > 0
           THEN /\ Len(db_other_income) < MaxBookRows
                /\ db_other_income' =
                       save_other_income(db_other_income, final_cat, inc_amount,
                                         StrfTime(inc_date), <<>>)
                /\ cache' = CacheAfterSave
                /\ last' = [op |-> "RecordIncome", ok |-> TRUE, sn |-> 0,
                            manual |-> FALSE, penalty_in |-> 0]
           ELSE /\ db_other_income' = db_other_income
                /\ cache' = ReportsLoaded
                /\ last' = [op |-> "RecordIncome", ok |-> FALSE, sn |-> 0,
                            manual |-> FALSE, penalty_in |-> 0]
    /\ UNCHANGED <<db_loans, now, pending, db_users, db_expenses, loans_table, session>>

\* Reports: "Record" submitted in the expense form
RecordExpense(exp_category, custom_exp, exp_amount, exp_date) ==
    /\ "Reports" \in Pages(session) /\ session.general_auth
    /\ call' = NoCall
    /\ LET final_exp == IF exp_category = <<"Other">> THEN custom_exp ELSE exp_category
       IN  IF final_exp # <<>>
           THEN /\ Len(db_expenses) < MaxBookRows
                /\ db_expenses' =
                       save_expense(db_expenses, final_exp, exp_amount,
                                    StrfTime(exp_date), <<>>)
                /\ cache' = CacheAfterSave
                /\ last' = [op |-> "RecordExpense", ok |-> TRUE, sn |-> 0,
                            manual |-> FALSE, penalty_in |-> 0]
           ELSE /\ db_expenses' = db_expenses
                /\ cache' = ReportsLoaded
                /\ last' = [op |-> "RecordExpense", ok |-> FALSE, sn |-> 0,
                            manual |-> FALSE, penalty_in |-> 0]
    /\ UNCHANGED <<db_loans, now, pending, db_users, db_other_income, loans_table, session>>

DoRecordIncome ==
    \E inc_category \in IncomeCategories, custom_cat \in CustomCategories,
       inc_amount \in IncomeAmounts, inc_date \in BookDates :
        RecordIncome(inc_category, custom_cat, inc_amount, inc_date)

DoRecordExpense ==
    \E exp_category \in ExpenseCategories, custom_exp \in CustomCategories,
       exp_amount \in ExpenseAmounts, exp_date \in BookDates :
        RecordExpense(exp_category, custom_exp, exp_amount, exp_date)

\* general_login_form(): "Login" pressed in the form the Reports page shows
\* to a session that has not signed in
GeneralLogin(u, p) ==
    /\ "Reports" \in Pages(session) /\ ~session.general_auth
    /\ \E ok \in {verify_login(db_users, Strip(u), Strip(p))} :
           /\ session' = IF ok THEN [session EXCEPT !.general_auth = TRUE,
                                                    !.current_user = User(Strip(u))]
                         ELSE session
           /\ last' = [op |-> "Login", ok |-> ok, sn |-> 0,
                       manual |-> FALSE, penalty_in |-> 0]
    /\ call' = NoCall
    /\ UNCHANGED <<db_loans, now, pending, cache, books>>

\* the restricted sections and the flag each one asks for
Sections ==
    {<<"Add Loan", "add_loan_auth">>, <<"Edit Loans", "edit_loan_auth">>,
     <<"Admin Controls", "admin_auth">>}

\* section_login_form(section_name, session_key): "Login to Access" pressed
SectionLogin(section_name, session_key, u, p) ==
    /\ section_name \in Pages(session) /\ ~session[session_key]
    /\ \E ok \in {verify_login(db_users, Strip(u), Strip(p))} :
           /\ session' = IF ok THEN [session EXCEPT ![session_key] = TRUE,
                                                    !.current_user = User(Strip(u))]
                         ELSE session
           /\ last' = [op |-> "SectionLogin", ok |-> ok, sn |-> 0,
                       manual |-> FALSE, penalty_in |-> 0]
    /\ call' = NoCall
    /\ UNCHANGED <<db_loans, now, pending, cache, books>>

\* a logout that forgets the sidebar flag only (used as a mutant).
LoggedOutSidebarOnly == [session EXCEPT !.general_auth = FALSE, !.current_user = None]

\* what logout_button() and the start of the next run leave: every key with
\* 'auth' in it and current_user deleted, then set to False and None
LoggedOut == NoSession

\* logout_button(): "Logout" pressed in the sidebar of a signed-in session
Logout ==
    /\ session.general_auth
    /\ session' = LoggedOut
    /\ last' = [op |-> "Logout", ok |-> TRUE, sn |-> 0,
                manual |-> FALSE, penalty_in |-> 0]
    /\ call' = NoCall
    /\ UNCHANGED <<db_loans, now, pending, cache, books>>

DoGeneralLogin == \E u \in LoginNames, p \in LoginPasswords : GeneralLogin(u, p)

DoSectionLogin ==
    \E sec \in Sections, u \in LoginNames, p \in LoginPasswords :
        SectionLogin(sec[1], sec[2], u, p)

\* The tables behind the read cache: the pages that load them, the handlers
\* that write them, and the seconds that pass in between.
CacheNext ==
    \/ ViewPage("Reports") \/ AdminPage \/ Second
    \/ DoAddLoan \/ ResetLoans
    \/ DoRecordIncome \/ DoRecordExpense
    \/ DoCreateUser \/ DoDeleteUser

CacheSpec == Init /\ [][CacheNext]_vars

\* A session from its first run: nobody signed in, the tables as init_db
\* leaves them.
AuthInit ==
    /\ db_loans = <<>>
    /\ now = Now0
    /\ call = NoCall
    /\ last = NoOp
    /\ pending = AllIdle
    /\ cache = EmptyCache
    /\ db_users = InitUsers
    /\ db_expenses = <<>>
    /\ db_other_income = <<>>
    /\ loans_table = TRUE
    /\ session = NoSession

AuthNext ==
    \/ DoGeneralLogin \/ DoSectionLogin \/ Logout
    \/ DoAddLoan \/ DoEditPenalty \/ DoDeleteLoan \/ ResetLoans
    \/ DoCreateUser \/ DoDeleteUser

AuthSpec == AuthInit /\ [][AuthNext]_vars

\* ------------------------------------------------------------ properties
\* r is a multiple of Cent nearest to n / d (d > 0)
NearestCent(r, n, d) ==
    /\ r % Cent = 0
    /\ 2 * Abs(r * d - n) <= Cent * d

\* a finished calculate_loan_fields invocation
CalcDone == call.fn = "calculate_loan_fields" /\ call.done

\* a finished direct months_overdue invocation
MonthsDone == call.fn = "months_overdue" /\ call.done

\* the date names a calendar day
ValidDate(dt) == dt.kind \notin {"none", "nat"} /\ Parseable(dt)

\* a hundred times principal + adminFee + interest - amountRemitted of the
\* current call, a whole number
ProvisionalOf(c) ==
    100 * (c.amount + c.admin_fees - c.remitted) + c.amount * c.rate * c.duration

\* the overdue months counted for the current call
OverdueOf(c) == months_overdue(c.loan_date, c.duration, c.today)

\* C1: with a valid disbursement date, k overdue months and provisional > 0,
\* the returned penalty is principal x 0.10 x k rounded to 2 decimals, for
\* every k (no cap).
C1_PenaltyLinear ==
    (CalcDone /\ ValidDate(call.loan_date) /\ ProvisionalOf(call) > 0)
        => NearestCent(call.result.penalty, call.amount * OverdueOf(call), 10)

\* C1 witness: a call with more than three overdue months whose penalty is
\* more than three months' worth.
C1_Witness ==
    /\ CalcDone /\ ValidDate(call.loan_date) /\ ProvisionalOf(call) > 0
    /\ OverdueOf(call) >= 5
    /\ call.amount > 0
    /\ 10 * call.result.penalty > 4 * call.amount

\* C2 (as claimed): if principal + adminFee + interest - amountRemitted <= 0
\* the returned penalty is 0 whatever the overdue months; the test uses the
\* interest only.
C2_PenaltyZeroWhenCovered ==
    (CalcDone /\ ProvisionalOf(call) <= 0) => call.result.penalty = 0

\* C3: the returned interest is principal x rate/100 x duration rounded to 2
\* decimals, whatever the date, the clock and the amount remitted.
C3_InterestFlat ==
    CalcDone => NearestCent(call.result.interest,
                            call.amount * call.rate * call.duration, 100)

\* C3 witness: a loan of several months, overdue and partly repaid, whose
\* interest is the flat one.
C3_Witness ==
    /\ CalcDone /\ call.duration >= 2 /\ call.rate > 0 /\ call.amount > 0
    /\ call.remitted > 0 /\ OverdueOf(call) >= 1
    /\ call.result.interest = 1000000

\* C4 (as claimed): on the stored, rounded values of every row and on every
\* returned tuple, totalAddOns = adminFee + interest + penalty and
\* grandTotal = principal + totalAddOns.
C4_SumsExact ==
    /\ \A i \in 1..Len(db_loans) :
          LET r == db_loans[i]
          IN  /\ r.total = r.admin_fees + r.interest + r.penalty_charged
              /\ r.g_total = r.amount + r.total
    /\ CalcDone =>
          /\ call.result.total_add =
                 call.admin_fees + call.result.interest + call.result.penalty
          /\ call.result.g_total = call.amount + call.result.total_add

\* C5: the balance returned by calculate_loan_fields and the balance of
\* every stored row are never negative.
C5_BalanceNonNegative ==
    /\ \A i \in 1..Len(db_loans) : db_loans[i].balance >= 0
    /\ CalcDone => call.result.balance >= 0

\* C5 witness: an automatic edit of a row repaid beyond its grand total: the
\* tuple returned and the row stored both have balance 0.
C5_Witness ==
    /\ CalcDone /\ call.by = "EditSave"
    /\ call.remitted > call.result.g_total
    /\ call.result.balance = 0
    /\ \E i \in 1..Len(db_loans) :
          /\ db_loans[i].sn = last.sn
          /\ db_loans[i].amt_remitted > db_loans[i].g_total
          /\ db_loans[i].balance = 0

\* the rows a handler wrote last
LastRows == {i \in 1..Len(db_loans) : db_loans[i].sn = last.sn}

ManualSaved == last.op = "EditSave" /\ last.manual

AutoSaved ==
    \/ last.op = "AddLoan" /\ last.ok
    \/ last.op = "EditSave" /\ ~last.manual

\* max(grandTotal - amountRemitted, 0) on the stored values of a row
DueOnRow(r) ==
    IF r.g_total - r.amt_remitted > 0 THEN r.g_total - r.amt_remitted ELSE 0

\* C6 (as claimed): every stored row has
\* balance = max(grandTotal - amountRemitted, 0).
C6_BalanceIsDue ==
    \A i \in 1..Len(db_loans) : db_loans[i].balance = DueOnRow(db_loans[i])

\* C6 (amended): a row saved by Add Loan or by an automatic edit has a balance
\* within one cent of max(grandTotal - amountRemitted, 0); a row saved with a
\* manual penalty has balance 0; every stored row is of one of the two kinds.
C6_BalanceByMode ==
    /\ \A i \in 1..Len(db_loans) :
          \/ db_loans[i].balance = 0
          \/ Abs(db_loans[i].balance - DueOnRow(db_loans[i])) <= Cent
    /\ ManualSaved => \A i \in LastRows : db_loans[i].balance = 0
    /\ AutoSaved =>
          \A i \in LastRows :
              Abs(db_loans[i].balance - DueOnRow(db_loans[i])) <= Cent

\* C6 witness: a manual save of a row that still owes money, next to a row
\* saved automatically with its balance due.
C6_Witness ==
    /\ ManualSaved
    /\ \E i \in LastRows :
          /\ db_loans[i].g_total > db_loans[i].amt_remitted
          /\ db_loans[i].balance = 0
    /\ \E j \in 1..Len(db_loans) :
          /\ db_loans[j].sn # last.sn
          /\ db_loans[j].balance > 0
          /\ db_loans[j].balance = DueOnRow(db_loans[j])

\* C7 (as claimed): after a save with manual penalty m > 0 the row has
\* penaltyCharged = m, totalAddOns = adminFee + interest + m,
\* grandTotal = principal + totalAddOns and balance 0.
C7_ManualOverrideExact ==
    ManualSaved =>
        \A i \in LastRows :
            LET r == db_loans[i]
            IN  /\ r.penalty_charged = last.penalty_in
                /\ r.total = r.admin_fees + r.interest + last.penalty_in
                /\ r.g_total = r.amount + r.total
                /\ r.balance = 0

\* the due date months_overdue computes for the current call, in ticks
DueOf(c) == Midnight(c.loan_date) + DueOffsetDays(c.duration) * TicksPerDay

\* whole 30-day blocks between a due instant and today
BlocksSince(due, today) ==
    IF today <= due THEN 0 ELSE ((today - due) \div 1000) \div 30

\* C8 (as claimed): for a valid date of any type (text, date, datetime) and
\* today after the due date, months_overdue returns
\* floor((today - due).days / 30).
C8_BlocksForEveryDateType ==
    (MonthsDone /\ ValidDate(call.loan_date) /\ call.today > DueOf(call))
        => call.months = BlocksSince(DueOf(call), call.today)

\* the integer nearest to duration x 30.437, and its integer part
NearestOffset(du) ==
    CHOOSE n \in 0..(31 * du) : 2 * Abs(n * 1000 - du * 30437) <= 1000

TruncOffset(du) ==
    CHOOSE n \in 0..(31 * du) : n * 1000 <= du * 30437 /\ du * 30437 < (n + 1) * 1000

\* a date months_overdue can compare with the clock
Comparable(dt) == dt.kind \in {"str", "datetime"} /\ Parseable(dt)

\* C9 (as claimed): for duration >= 1 the due date is the disbursement date
\* plus round(duration x 30.437) days.
C9_DueDateRounded ==
    (MonthsDone /\ Comparable(call.loan_date) /\ call.duration >= 1)
        => call.months =
               BlocksSince(Midnight(call.loan_date)
                               + NearestOffset(call.duration) * 1000, call.today)

\* C9 (amended): for duration >= 1 the due date is the disbursement date plus
\* int(duration x 30.437) days, the integer part (60 days for 2 months, 121
\* days for 4 months).
C9_DueDateTruncated ==
    (MonthsDone /\ Comparable(call.loan_date) /\ call.duration >= 1)
        => /\ call.months =
                  BlocksSince(Midnight(call.loan_date)
                                  + TruncOffset(call.duration) * 1000, call.today)
           /\ call.duration = 2 => TruncOffset(call.duration) = 60
           /\ call.duration = 4 => TruncOffset(call.duration) = 121

\* C9 witness: a loan of 2 months seen 60 + 30 days after its disbursement:
\* one overdue month, where a due date at 61 days would give none.
C9_Witness ==
    /\ MonthsDone /\ Comparable(call.loan_date) /\ call.duration = 2
    /\ (call.today - Midnight(call.loan_date)) \div 1000 = 90
    /\ call.months = 1

\* C10: while today <= disbursement date + duration x 30.437 days,
\* months_overdue returns 0 and calculate_loan_fields returns penalty 0.
C10_NoPenaltyBeforeDue ==
    LET limit == Midnight(call.loan_date) + call.duration * 30437
    IN  /\ (MonthsDone /\ ValidDate(call.loan_date) /\ call.today <= limit)
               => call.months = 0
        /\ (CalcDone /\ ValidDate(call.loan_date) /\ call.today <= limit)
               => call.result.penalty = 0

\* C10 witness: a text date, today past the due date the code computes (60
\* days) and not past disbursement + 2 x 30.437 days: 0 overdue months.
C10_Witness ==
    /\ MonthsDone /\ call.loan_date.kind = "str" /\ Parseable(call.loan_date)
    /\ call.duration = 2
    /\ call.today > Midnight(call.loan_date) + 60 * 1000
    /\ call.today <= Midnight(call.loan_date) + 2 * 30437
    /\ call.months = 0

\* the disbursement date is absent (None, NaT) or a text that names no day
AbsentOrUnparseable(dt) ==
    \/ dt.kind \in {"none", "nat"}
    \/ dt.kind = "str" /\ ~(dt.m \in 1..12 /\ dt.d \in 1..DaysInMonth(dt.y, dt.m))

\* C11 (as claimed): with an absent or unparseable disbursement date
\* months_overdue returns 0, and calculate_loan_fields returns penalty 0 and
\* the other four fields as computed from the amounts alone.
C11_AbsentDateGivesZero ==
    /\ (MonthsDone /\ AbsentOrUnparseable(call.loan_date)) => call.months = 0
    /\ (CalcDone /\ AbsentOrUnparseable(call.loan_date)) =>
          /\ call.result.penalty = 0
          /\ NearestCent(call.result.interest,
                         call.amount * call.rate * call.duration, 100)
          /\ NearestCent(call.result.total_add,
                         100 * call.admin_fees
                             + call.amount * call.rate * call.duration, 100)
          /\ NearestCent(call.result.g_total,
                         100 * (call.amount + call.admin_fees)
                             + call.amount * call.rate * call.duration, 100)
          /\ call.result.balance >= 0

\* whole 30-day blocks between the due date of a stored row and an instant
BlocksOnRow(r, today) ==
    BlocksSince(Midnight(r.date) + TruncOffset(r.duration) * 1000, today)

\* C12 (as claimed): a row stored by Add Loan or by an automatic edit, whose
\* due date lies k >= 1 whole 30-day blocks before the time of the save and
\* whose principal + adminFee + interest - amountRemitted is positive, has
\* penaltyCharged = principal x 0.10 x k rounded to 2 decimals, and its
\* balance includes that penalty.
C12_StoredPenaltyCharged ==
    (AutoSaved /\ CalcDone) =>
        \A i \in LastRows :
            LET r == db_loans[i]
                k == BlocksOnRow(r, call.today)
            IN  (/\ ValidDate(r.date) /\ r.duration >= 1 /\ k >= 1
                 /\ r.amount + r.admin_fees + r.interest - r.amt_remitted > 0)
                    => /\ NearestCent(r.penalty_charged, r.amount * k, 10)
                       /\ r.balance + Cent >= r.amount + r.admin_fees + r.interest
                                                 + (r.amount * k) \div 10 - r.amt_remitted

\* the serials and the rows of a table
SerialsOf(db) == {db[i].sn : i \in 1..Len(db)}

RowsOf(db) == {db[i] : i \in 1..Len(db)}

\* the step is a successful Add Loan / the run of a click on "Yes, Delete
\* Permanently" for the row of serial last'.sn
AddStep == last'.op = "AddLoan" /\ last'.ok /\ db_loans' # db_loans

DeleteStep == last'.op = "DeleteLoan" /\ last' # last

\* no two rows share a serial, and every serial is a positive integer
SerialsUnique ==
    /\ \A i, j \in 1..Len(db_loans) : i # j => db_loans[i].sn # db_loans[j].sn
    /\ \A i \in 1..Len(db_loans) : db_loans[i].sn \in Nat /\ db_loans[i].sn >= 1

\* C13: through Add Loan, Edit, Delete and Reset one at a time, no two stored
\* rows share a serial, every serial is a positive integer, and a new loan
\* gets the highest stored serial + 1, or 1 when the table is empty.
C13_SerialsUniqueMaxPlusOne ==
    /\ []SerialsUnique
    /\ [][AddStep =>
            /\ SerialsOf(db_loans') = SerialsOf(db_loans) \cup {last'.sn}
            /\ Len(db_loans') = Len(db_loans) + 1
            /\ \A k \in SerialsOf(db_loans) : k < last'.sn
            /\ IF db_loans = <<>> THEN last'.sn = 1
               ELSE last'.sn - 1 \in SerialsOf(db_loans)]_vars

\* C13 witness: a loan added next to an edited one after a reset had emptied
\* the table: it gets serial 2, next to the row of serial 1.
C13_Witness ==
    /\ last.op = "AddLoan" /\ last.ok /\ last.sn = 2
    /\ SerialsOf(db_loans) = {1, 2}
    /\ \E i \in 1..Len(db_loans) : db_loans[i].sn = 1 /\ db_loans[i].penalty_charged > 0

\* C14 (as claimed): the serial of a new loan is greater than every serial
\* handed out before, those of loans removed since included; here for the
\* serials still stored and for the serials of the loans a reset has removed
\* just before.
C14_SerialsNeverReused ==
    [][AddStep =>
          /\ \A k \in SerialsOf(db_loans) : last'.sn > k
          /\ last.op = "ResetLoans" => last'.sn > last.sn]_vars

\* C15 (as claimed): deleting the loan of serial s, "Delete This Record"
\* confirmed with "Yes, Delete Permanently", removes the row of serial s and
\* nothing else; every other row stays, with all its fields as they were.
C15_DeleteRemovesOnlyThatRow ==
    [][DeleteStep =>
          /\ last'.sn \in SerialsOf(db_loans)
          /\ RowsOf(db_loans') = {r \in RowsOf(db_loans) : r.sn # last'.sn}
          /\ Len(db_loans') = Len(db_loans) - 1]_vars

\* the derived fields of a row
DerivedOf(r) == <<r.interest, r.penalty_charged, r.total, r.g_total, r.balance>>

\* C16: the derived fields of a stored loan change only in a step that edits
\* that loan; a step in which time passes, or in which the Dashboard, the
\* records, a report or the edit preview is shown, leaves the table as it was.
C16_OnlyEditsChangeDerived ==
    [][/\ \A r \in RowsOf(db_loans), q \in RowsOf(db_loans') :
              (r.sn = q.sn /\ DerivedOf(r) # DerivedOf(q))
                  => (last'.op = "EditSave" /\ last'.sn = r.sn)
       /\ (now' # now \/ last'.op \in ViewPages \cup {"EditPreview"})
              => db_loans' = db_loans]_vars

\* C16 witness: a report shown after the clock moved on: a loan whose due
\* date is one more 30-day block in the past than when the clock started
\* still has the penalty 0 it was stored with.
C16_Witness ==
    /\ last.op = "Reports" /\ now > Now0
    /\ \E i \in 1..Len(db_loans) :
          /\ BlocksOnRow(db_loans[i], now) > BlocksOnRow(db_loans[i], Now0)
          /\ db_loans[i].amount > 0
          /\ db_loans[i].penalty_charged = 0

\* C17: for every numeric principal, rate, duration, admin fee and remitted
\* amount, negative values and zero duration included, months_overdue returns
\* an integer >= 0 and calculate_loan_fields returns five numbers (the date
\* being None, a text, a date or a datetime).
C17_TotalOnNumbers ==
    /\ (MonthsDone /\ call.loan_date.kind # "nat") => call.months \in Nat
    /\ (CalcDone /\ call.by = "direct") =>
          \A f \in {"interest", "penalty", "total_add", "g_total", "balance"} :
              call.result[f] \in Int /\ call.result[f] % Cent = 0

\* C17 witness: a call with a negative principal and a zero duration on an
\* overdue date returned: interest 0, a negative grand total, balance 0.
C17_Witness ==
    /\ CalcDone /\ call.by = "direct"
    /\ call.amount < 0 /\ call.duration = 0
    /\ Comparable(call.loan_date) /\ call.today > Midnight(call.loan_date)
    /\ call.result.interest = 0
    /\ call.result.g_total < 0
    /\ call.result.balance = 0

\* C18 (as claimed): whenever Add Loan, the edit preview or Save Changes has
\* invoked calculate_loan_fields, the principal passed is > 0, and a row they
\* stored has a non-empty trimmed name and a principal > 0.
C18_EngineOnlyOnValidInputs ==
    /\ (CalcDone /\ call.by \in {"AddLoan", "EditPreview", "EditSave"})
           => call.amount > 0
    /\ (last.op \in {"AddLoan", "EditSave"} /\ last.ok) =>
           \A i \in LastRows :
               db_loans[i].names # <<>> /\ db_loans[i].amount > 0

\* the call is on a calendar day and runs 150 days after it
At150Days(c) ==
    /\ ValidDate(c.loan_date)
    /\ (c.today - Midnight(c.loan_date)) \div 1000 = 150

\* C19 (as claimed): for principal 100000, rate 5 %, 3 months, admin fee 2000,
\* remitted 0, seen 150 days after the disbursement date, months_overdue
\* returns 1 and calculate_loan_fields returns interest 15000.00, penalty
\* 10000.00, totalAddOns 27000.00, grandTotal 127000.00, balance 127000.00.
C19_ScenarioB ==
    /\ (MonthsDone /\ call.duration = 3 /\ At150Days(call)) => call.months = 1
    /\ (CalcDone /\ call.amount = 1000000000 /\ At150Days(call)) =>
          call.result = [interest  |-> 150000000,
                         penalty   |-> 100000000,
                         total_add |-> 270000000,
                         g_total   |-> 1270000000,
                         balance   |-> 1270000000]

\* session s begins in this step the save of the frame it had built
SavesNow(s) == pending[s].pc = "loaded" /\ pending'[s].pc \in {"tested", "dropped"}

\* the rows that save puts in place of the table
Saving(s) == save_loans_df(pending[s].df)

\* C20 (as claimed): when the steps of two sessions interleave, a save keeps
\* what the other session has stored meanwhile: apart from the row of the
\* serial it works on, no stored row is lost or changed, no row that is no
\* longer stored comes back, and the serial of a loan it adds is not the
\* serial of a loan already stored.
C20_InterleavedWritesKept ==
    [][\A s \in Sessions :
          SavesNow(s) =>
              /\ \A r \in RowsOf(db_loans) :
                     r.sn # pending[s].sn => r \in RowsOf(Saving(s))
              /\ \A q \in RowsOf(Saving(s)) :
                     q.sn # pending[s].sn => q \in RowsOf(db_loans)
              /\ pending[s].op = "AddLoan"
                     => pending[s].sn \notin SerialsOf(db_loans)]_vars

\* C21: a Save Changes on the loan of serial s leaves the number of rows and
\* the serials as they were, the row of serial s included, and every row of
\* another serial with all its fields.
C21_EditChangesOnlyThatRow ==
    [][(last'.op = "EditSave" /\ <<db_loans, last>>' # <<db_loans, last>>) =>
          /\ Len(db_loans') = Len(db_loans)
          /\ SerialsOf(db_loans') = SerialsOf(db_loans)
          /\ last'.sn \in SerialsOf(db_loans)
          /\ \A i \in 1..Len(db_loans) :
                 /\ db_loans'[i].sn = db_loans[i].sn
                 /\ db_loans[i].sn # last'.sn => db_loans'[i] = db_loans[i]]_vars

\* C21 witness: the amount paid of one row was edited; the other row still
\* has nothing paid and its balance due.
C21_Witness ==
    /\ last.op = "EditSave" /\ Len(db_loans) = 2
    /\ \E i, j \in 1..2 :
          /\ db_loans[i].sn = last.sn /\ db_loans[i].amt_remitted = 12000000
          /\ db_loans[j].sn # last.sn /\ db_loans[j].amt_remitted = 0
          /\ db_loans[j].balance > 0

\* the text is empty or made of blanks only
Blank(name) == \A k \in 1..Len(name) : name[k] = " "

\* C22: an Add Loan submission with an empty or blank name, or a principal
\* not > 0, is rejected: the handler reports the error, calls nothing and
\* leaves the table exactly as it was, so that no serial is used up.
C22_InvalidAddRejected ==
    [][\A name \in AddNames, disp_date \in AddDates,
          principal \in AddPrincipals \cup {0, -5000000}, rate_pct \in AddRates,
          months \in AddMonths, admin_fee \in AddAdminFees, already_paid \in AddPaid :
            (/\ Blank(name) \/ principal <= 0
             /\ AddLoan(name, disp_date, principal, rate_pct, months, admin_fee,
                        already_paid))
                => /\ db_loans' = db_loans
                   /\ last'.op = "AddLoan" /\ ~last'.ok
                   /\ call' = NoCall
                   /\ MaxSn(load_loans_df(db_loans')) = MaxSn(load_loans_df(db_loans))]_vars

\* C22 witness: a submission was rejected while a loan was stored: the table
\* still holds that loan alone, and no engine call was made.
C22_Witness ==
    /\ last.op = "AddLoan" /\ ~last.ok
    /\ call = NoCall
    /\ Len(db_loans) = 1 /\ db_loans[1].sn = 1

\* what each cached loader returns when called now
ReadNow ==
    [loans        |-> CachedValue(cache.loans, load_loans_df(db_loans)),
     expenses     |-> CachedValue(cache.expenses, load_expenses_df(db_expenses)),
     other_income |-> CachedValue(cache.other_income,
                                  load_other_income_df(db_other_income)),
     users        |-> CachedValue(cache.users, load_users_df(db_users))]

\* what the bodies of the loaders read from the tables now
StoredNow ==
    [loans        |-> load_loans_df(db_loans),
     expenses     |-> load_expenses_df(db_expenses),
     other_income |-> load_other_income_df(db_other_income),
     users        |-> load_users_df(db_users)]

\* C23 (as claimed): a step that writes a table leaves the read cache empty, and at every
\* moment each loader, called then, returns the rows its table holds then,
\* whether an entry of the cache is still kept or not.
C23_ReadsSeeLatestWrite ==
    /\ [](ReadNow = StoredNow)
    /\ [][<<db_loans, books>>' # <<db_loans, books>> => cache' = EmptyCache]_vars

\* the row of serial sn in a table
RowOfSn(db, sn) == db[CHOOSE i \in 1..Len(db) : db[i].sn = sn]

\* C24: what a Save Changes stores follows from the penalty input alone.  With
\* an input above 0 the row is stored in the manual mode: the input as its
\* penalty, the add-ons built on it, balance 0.  With an input of 0 the row
\* holds what calculate_loan_fields returned for the saved inputs.  So a save
\* that leaves the input at the stored penalty keeps a positive penalty with
\* balance 0, and takes the automatic outputs when the stored penalty is 0.
C24_ModeByPenaltyInput ==
    [][(last'.op = "EditSave" /\ <<db_loans, last, call>>' # <<db_loans, last, call>>) =>
          LET r      == RowOfSn(db_loans', last'.sn)
              before == RowOfSn(db_loans, last'.sn)
              adds   == Shift(Interest(r.amount, r.int_rate, r.duration),
                              r.admin_fees + last'.penalty_in)
          IN  /\ last'.manual = (last'.penalty_in > 0)
              /\ last'.penalty_in > 0 =>
                    /\ r.balance = 0
                    /\ r.penalty_charged \in Round2(Whole(last'.penalty_in))
                    /\ r.total \in Round2(adds)
                    /\ r.g_total \in Round2(Shift(adds, r.amount))
              /\ last'.penalty_in = 0 =>
                    /\ call'.fn = "calculate_loan_fields" /\ call'.by = "EditSave"
                    /\ <<call'.amount, call'.rate, call'.duration, call'.admin_fees,
                         call'.remitted>>
                         = <<r.amount, r.int_rate, r.duration, r.admin_fees, r.amt_remitted>>
                    /\ <<r.interest, r.penalty_charged, r.total, r.g_total, r.balance>>
                         = <<call'.result.interest, call'.result.penalty,
                             call'.result.total_add, call'.result.g_total,
                             call'.result.balance>>
              /\ (last'.penalty_in = before.penalty_charged /\ before.penalty_charged > 0)
                    => r.balance = 0 /\ r.penalty_charged = before.penalty_charged]_vars

\* a row with a stored penalty was saved with the penalty input as shown and
\* the amount paid edited; it is stored in the manual mode
C24_Witness ==
    /\ last.op = "EditSave" /\ last.manual
    /\ last.penalty_in \notin EditPenalties
    /\ \E i \in 1..Len(db_loans) :
          /\ db_loans[i].sn = last.sn
          /\ db_loans[i].penalty_charged = last.penalty_in
          /\ db_loans[i].amt_remitted = 12000000
          /\ db_loans[i].balance = 0

\* the arguments of the current call are all non-negative
NonNegative(c) ==
    c.amount >= 0 /\ c.rate >= 0 /\ c.duration >= 0 /\ c.admin_fees >= 0 /\ c.remitted >= 0

\* a hundred times provisional + penalty of the current call, the penalty
\* being amount x 0.10 x the overdue months counted for a date that is there
HundredTimesDue(c) ==
    ProvisionalOf(c) + 10 * c.amount * (IF NotNa(c.loan_date) THEN OverdueOf(c) ELSE 0)

\* C25 (as claimed): on non-negative inputs the returned balance is 0 exactly
\* when provisional <= 0, and with provisional > 0 it is above 0 and is
\* provisional + penalty rounded to 2 decimals.
C25_BalanceZeroIffCovered ==
    (CalcDone /\ NonNegative(call)) =>
        /\ (call.result.balance = 0) <=> (ProvisionalOf(call) <= 0)
        /\ ProvisionalOf(call) > 0 =>
              /\ call.result.balance > 0
              /\ NearestCent(call.result.balance, HundredTimesDue(call), 100)

\* the flag each gated handler runs under
FlagOf ==
    [AddLoan |-> "add_loan_auth", EditSave |-> "edit_loan_auth",
     DeleteThisRecord |-> "edit_loan_auth", DeleteLoan |-> "edit_loan_auth",
     ResetLoans |-> "admin_auth",
     CreateUser |-> "admin_auth", DeleteUser |-> "admin_auth"]

Flags == {"general_auth", "add_loan_auth", "edit_loan_auth", "admin_auth"}

\* the user table holds a row of this name
HasUser(db, name) == \E i \in 1..Len(db.rows) : db.rows[i].username = name

\* C26: a step that changes the loans or the users table is the run of a
\* gated handler, taken while its section flag and general_auth are set; a
\* flag gets set only by a sign-in that verify_login accepted, for a user of
\* the table; Logout leaves every flag unset and nobody signed in, and so it
\* stays until a sign-in succeeds.
C26_GatedBySignIn ==
    /\ [][(db_loans' # db_loans \/ db_users' # db_users \/
           (last'.op \in DOMAIN FlagOf /\ <<last, call>>' # <<last, call>>)) =>
              /\ last'.op \in DOMAIN FlagOf
              /\ session[FlagOf[last'.op]]
              /\ session.general_auth]_vars
    /\ [][(\E f \in Flags : ~session[f] /\ session'[f]) =>
              /\ last'.op \in {"Login", "SectionLogin"} /\ last'.ok
              /\ session'.current_user.set
              /\ HasUser(db_users, session'.current_user.name)]_vars
    /\ [][(last'.op = "Logout" /\ last' # last) => session' = NoSession]_vars
    /\ [][(session = NoSession /\ ~(last'.op \in {"Login", "SectionLogin"} /\ last'.ok))
              => session' = NoSession]_vars

\* after a loan was added the session signed out and in again, at the
\* sidebar and at Admin Controls only, and a user was deleted there
C26_Witness ==
    /\ last.op = "DeleteUser"
    /\ Len(db_loans) = 1
    /\ session.general_auth /\ session.admin_auth
    /\ ~session.add_loan_auth /\ ~session.edit_loan_auth
    /\ db_users.seq = 2 /\ Len(db_users.rows) = 1

\* C27: the user 'admin' is always there.  delete_user(id, current), for any
\* id and any current user, keeps the row of current and the row of 'admin',
\* and leaves the table as it is but for the row of that id.  A Create User
\* with a name the table holds already is refused and leaves the table as it is.
C27_UsersKept ==
    /\ [](/\ HasUser(db_users, Admin)
          /\ \A id \in 0..(MaxUserId + 1), cur \in {None} \cup {User(Strip(u)) : u \in LoginNames} :
                LET after == delete_user(db_users, id, cur)
                IN  /\ HasUser(after, Admin)
                    /\ (cur.set /\ HasUser(db_users, cur.name)) => HasUser(after, cur.name)
                    /\ after.rows \in {db_users.rows,
                                       SelectSeq(db_users.rows, LAMBDA r : r.id # id)})
    /\ [][(last'.op = "DeleteUser" /\ <<last, db_users>>' # <<last, db_users>>) =>
              /\ HasUser(db_users', Admin)
              /\ HasUser(db_users, session.current_user.name)
                    => HasUser(db_users', session.current_user.name)
              /\ db_users'.rows \in {db_users.rows,
                                     SelectSeq(db_users.rows, LAMBDA r : r.id # last'.sn)}]_vars
    /\ [][\A u \in NewUsernames, p \in NewPasswords, at \in CreatedAts(db_users) :
              (HasUser(db_users, Strip(u)) /\ CreateUser(u, p, at))
                  => ~last'.ok /\ db_users' = db_users]_vars

\* signed in as bob, the session pressed Delete on the row of 'admin'; both
\* rows are still there
C27_Witness ==
    /\ last.op = "DeleteUser" /\ last.sn = 1
    /\ session.current_user = User(<<"bob">>)
    /\ Len(db_users.rows) = 2
    /\ HasUser(db_users, Admin) /\ HasUser(db_users, <<"bob">>)
====
